---- MODULE Spec2Model ----
(***************************************************************************)
(* roman_photoz: the catalog handler (roman_catalog_handler.py) and the    *)
(* catalog process orchestrator (roman_catalog_process.py) as state        *)
(* machines.                                                               *)
(*                                                                         *)
(* A table is a record [kind, rows, cols]: cols is the sequence of its     *)
(* columns, a column a record [name, data].  A numeric cell is a record    *)
(* [m, e] standing for m * 10^e, so that a unit conversion (a factor       *)
(* 10^-32) is a change the model can see; a string cell is a record [s].   *)
(***************************************************************************)
EXTENDS Integers, Sequences, FiniteSets, TLC

VARIABLES
    cat_name,      \* RomanCatalogHandler.cat_name
    cat_array,     \* RomanCatalogHandler.cat_array: the source table, or None
    catalog,       \* RomanCatalogHandler.catalog: the formatted table, or None
    fit_templates, \* RomanCatalogHandler.fit_colname / fit_err_colname
    filter_names,  \* RomanCatalogHandler.filter_names
    hlast,         \* the last handler operation and how it ended
    files,         \* the file system: path -> file
    config,        \* RomanCatalogProcess.config
    flux_cols,     \* RomanCatalogProcess.flux_cols
    flux_err_cols, \* RomanCatalogProcess.flux_err_cols
    data,          \* RomanCatalogProcess.data
    inform_stage,  \* RomanCatalogProcess.inform_stage
    estimated,     \* RomanCatalogProcess.estimated
    pc,            \* the position of the running process() call, or "idle"
    args,          \* the arguments of the running (or last) process() call
    plast,         \* the last RomanCatalogProcess operation and how it ended
    run,           \* history of the running (or last) process() call
    cli,           \* a run of the command-line entry point main(), or None
    env,           \* os.environ and the accesses of informer_model_path, or None
    flx,           \* the calls of update_fluxes and of the row samplers, or None
    sim,           \* a SimulatedCatalog object and its output file, or None
    rnd,           \* the calls of the seeded create_random_catalog, or None
    flt,           \* a run of create_roman_filters.create_files, or None
    gen,           \* SimulatedCatalog.process(): filter and library files, or None
    par            \* two concurrent RomanCatalogProcess.process() calls, or None

hvars == <<cat_name, cat_array, catalog, fit_templates, filter_names, hlast>>

pvars == <<config, flux_cols, flux_err_cols, data, inform_stage, estimated, pc, args,
           plast, run>>

xvars == <<cli, env, flx, sim, rnd, flt, gen, par>>

yvars == <<rnd, flt, gen, par>>

vars == <<cat_name, cat_array, catalog, fit_templates, filter_names, hlast, files,
          config, flux_cols, flux_err_cols, data, inform_stage, estimated, pc, args,
          plast, run, cli, env, flx, sim, rnd, flt, gen, par>>

(***************************************************************************)
(* Bounds of the model.                                                    *)
(***************************************************************************)
\* rows of a non-empty input catalog
MaxRows == 2

\* columns in which an input catalog differs from the fully populated one
MaxDev == 1

(***************************************************************************)
(* Values.                                                                 *)
(***************************************************************************)
None == [kind |-> "None"]

Absent == [kind |-> "absent"]

\* the value written for a band the source table lacks
SENTINEL == -99

Num(m) == [m |-> m, e |-> 0]

Dec(m, e) == [m |-> m, e |-> e]

Str(s) == [s |-> s]

Table(rows, cols) == [kind |-> "table", rows |-> rows, cols |-> cols]

Column(name, vals) == [name |-> name, data |-> vals]

HasCol(cols, n) == \E i \in DOMAIN cols : cols[i].name = n

Col(cols, n) == cols[CHOOSE i \in DOMAIN cols : cols[i].name = n]

Count(cols, n) == Cardinality({i \in DOMAIN cols : cols[i].name = n})

\* np.full(rows, value)
Full(rows, cell) == [r \in 1..rows |-> cell]

(***************************************************************************)
(* The default configuration and the filter list derived from it.          *)
(***************************************************************************)
\* FILTER_LIST of default_roman_config, split at the commas; each entry in
\* the parts that get_roman_filter_list's replace() calls tell apart
DEFAULT_FILTER_LIST ==
    << <<"roman/roman_", "F062", ".pb">>, <<"roman/roman_", "F087", ".pb">>,
       <<"roman/roman_", "F106", ".pb">>, <<"roman/roman_", "F129", ".pb">>,
       <<"roman/roman_", "F146", ".pb">>, <<"roman/roman_", "F158", ".pb">>,
       <<"roman/roman_", "F184", ".pb">>, <<"roman/roman_", "F213", ".pb">> >>

default_roman_config == [FILTER_LIST |-> DEFAULT_FILTER_LIST, source |-> "default"]

\* str.lower() on the strings of the model
LowerTable ==
    [s \in {"F062", "F087", "F106", "F129", "F146", "F158", "F184", "F213"} |->
        CASE s = "F062" -> "f062" [] s = "F087" -> "f087" [] s = "F106" -> "f106"
          [] s = "F129" -> "f129" [] s = "F146" -> "f146" [] s = "F158" -> "f158"
          [] s = "F184" -> "f184" [] s = "F213" -> "f213"]

Lower(s) == IF s \in DOMAIN LowerTable THEN LowerTable[s] ELSE s

UpperTable ==
    [s \in {"f062", "f087", "f106", "f129", "f146", "f158", "f184", "f213"} |->
        CHOOSE u \in DOMAIN LowerTable : LowerTable[u] = s]

Upper(s) == IF s \in DOMAIN UpperTable THEN UpperTable[s] ELSE s

\* str.replace(old, ""): the parts equal to old vanish
RECURSIVE Replace(_, _)
Replace(entry, old) ==
    IF entry = <<>> THEN <<>>
    ELSE IF Head(entry) = old THEN Replace(Tail(entry), old)
    ELSE <<Head(entry)>> \o Replace(Tail(entry), old)

RECURSIVE Join(_)
Join(entry) == IF entry = <<>> THEN "" ELSE Head(entry) \o Join(Tail(entry))

\* the filters of one configuration's FILTER_LIST, as the code derives them
FilterNamesOf(filter_list, uppercase) ==
    [i \in DOMAIN filter_list |->
        LET f == Join(Replace(Replace(filter_list[i], ".pb"), "roman/roman_"))
        IN  IF uppercase THEN Upper(f) ELSE Lower(f)]

\* get_roman_filter_list: reads the module-level default configuration
get_roman_filter_list(uppercase) ==
    FilterNamesOf(default_roman_config.FILTER_LIST, uppercase)

(***************************************************************************)
(* Column-name templates: str.format on a template with one placeholder.   *)
(***************************************************************************)
Template(pre, post) == [pre |-> pre, post |-> post]

Format(template, filter_id) == template.pre \o filter_id \o template.post

SEGMENT_TEMPLATES ==
    [flux |-> Template("segment_", "_flux"), err |-> Template("segment_", "_flux_err")]

PSF_TEMPLATES ==
    [flux |-> Template("psf_", "_flux"), err |-> Template("psf_", "_flux_err")]

(***************************************************************************)
(* The input catalogs of the model: the fully populated catalog of the     *)
(* tests' fixture (mock_catalog_data), and the catalogs that differ from   *)
(* it in at most MaxDev columns.                                           *)
(***************************************************************************)
FixtureCols(rows) ==
    LET f == get_roman_filter_list(FALSE)
        Flux(i) == Column(Format(SEGMENT_TEMPLATES.flux, f[i]),
                          [r \in 1..rows |-> Num(100 + 10 * (i - 1) + 50 * (r - 1))])
        Err(i)  == Column(Format(SEGMENT_TEMPLATES.err, f[i]),
                          [r \in 1..rows |-> Dec(50 + 5 * (i - 1) + 25 * (r - 1), -1)])
        Pair[i \in 0..Len(f)] == IF i = 0 THEN <<>> ELSE Pair[i - 1] \o <<Flux(i), Err(i)>>
    IN  <<Column("label", [r \in 1..rows |-> Num(r)])>>
        \o Pair[Len(f)]
        \o <<Column("context", [r \in 1..rows |-> Num(IF r < 3 THEN 1 ELSE 2)]),
             Column("zspec", [r \in 1..rows |-> Dec(5 * r, -1)]),
             Column("string_data", [r \in 1..rows |-> Str("source" \o ToString(r))])>>

FluxColumnNames ==
    LET f == get_roman_filter_list(FALSE)
    IN  {Format(SEGMENT_TEMPLATES.flux, f[i]) : i \in DOMAIN f}
        \cup {Format(SEGMENT_TEMPLATES.err, f[i]) : i \in DOMAIN f}

\* the band whose values the input catalogs vary
VARIED_FLUX == Format(SEGMENT_TEMPLATES.flux, "f184")

VARIED_ERR == Format(SEGMENT_TEMPLATES.err, "f184")

\* one deviation from the fixture: a column dropped; or, for the varied band,
\* both its columns dropped ("dropband"), both holding the sentinel
\* ("sentinelband"), or its errors not positive ("nonpositive")
Deviations ==
    [col : {"label", "context", "zspec", "string_data", VARIED_FLUX, VARIED_ERR,
            Format(SEGMENT_TEMPLATES.flux, "f062"), Format(SEGMENT_TEMPLATES.err, "f062")},
     kind : {"drop"}]
    \cup [col : {VARIED_FLUX}, kind : {"dropband", "sentinelband"}]
    \cup [col : {VARIED_ERR}, kind : {"nonpositive"}]

\* the columns a deviation touches
Touches(d, name) ==
    \/ d.col = name
    \/ d.kind \in {"dropband", "sentinelband"} /\ d.col = VARIED_FLUX /\ name = VARIED_ERR

RECURSIVE DevSets(_)
DevSets(k) ==
    IF k = 0 THEN {{}}
    ELSE DevSets(k - 1)
         \cup UNION {{D \cup {d} : d \in {x \in Deviations : \A y \in D : y.col # x.col}} :
                        D \in DevSets(k - 1)}

RECURSIVE Deviate(_, _)
Deviate(cols, D) ==
    IF cols = <<>> THEN <<>>
    ELSE LET c == Head(cols)
             d == {x.kind : x \in {y \in D : Touches(y, c.name)}}
             k == IF d = {} THEN "keep"
                  ELSE IF d \cap {"drop", "dropband"} # {} THEN "drop"
                  ELSE CHOOSE x \in d : TRUE
         IN  (CASE k = "keep" -> <<c>>
                [] k = "drop" -> <<>>
                [] k = "sentinelband" ->
                      <<Column(c.name, [r \in DOMAIN c.data |-> Num(SENTINEL)])>>
                [] k = "nonpositive" ->
                      <<Column(c.name, [r \in DOMAIN c.data |-> Num(1 - r)])>>)
             \o Deviate(Tail(cols), D)

InputTables(k) ==
    {Table(rows, Deviate(FixtureCols(rows), D)) : rows \in {0, MaxRows}, D \in DevSets(k)}

(***************************************************************************)
(* Files.                                                                  *)
(***************************************************************************)
\* the catalog file names of the model, one per extension read_catalog tells apart
InputNames == {"cat.parquet", "cat.asdf", "cat.csv"}

\* informer_model_path, with neither INFORMER_MODEL_PATH nor LEPHAREWORK set and
\* the default model_filename
MODEL_PATH == "roman_model.pkl"

OUT_NAME == "results.out"

\* the NamedTemporaryFile of create_estimator_stage
TMP_NAME == "./output_estimate_lephare.hdf5"

CONFIG_JSON == "roman_config.json"

\* Path(FILTER_REP, "roman"): the directory of the transmission files of the
\* bands and of roman_phot.par
FILTER_DIR == "filt/roman"

Paths == InputNames \cup {MODEL_PATH, OUT_NAME, TMP_NAME, CONFIG_JSON, FILTER_DIR}

\* Path(name).suffix
Suffix(name) ==
    CASE name = "cat.parquet" -> ".parquet"
      [] name = "cat.asdf" -> ".asdf"
      [] name = "cat.csv" -> ".csv"
      [] OTHER -> ""

NoMeta == [unit |-> "NOT FOUND", description |-> "NOT FOUND"]

\* the unit and description a column of a pipeline catalog carries
PipelineMeta(name) ==
    [unit |-> IF name \in FluxColumnNames THEN "nJy" ELSE "none",
     description |-> "the " \o name]

YamlEntry(name, meta) ==
    [name |-> name, unit |-> meta.unit, description |-> meta.description]

\* a catalog file: its columns, the metadata of its PyArrow schema fields
\* (parallel to cols), and the columns table_meta_yaml describes
CatalogFile(name, t) ==
    [kind |-> "catalog", format |-> Suffix(name), rows |-> t.rows, cols |-> t.cols,
     field_meta |-> [i \in DOMAIN t.cols |-> PipelineMeta(t.cols[i].name)],
     yaml |-> [i \in DOMAIN t.cols |-> YamlEntry(t.cols[i].name,
                                                 PipelineMeta(t.cols[i].name))]]

(***************************************************************************)
(* RomanCatalogHandler.                                                    *)
(***************************************************************************)
\* the components a specification leaves out
NoCli == cli = [kind |-> "None"]

NoEnv == env = [kind |-> "None"]

NoFlx == flx = [kind |-> "None"]

NoSim == sim = [kind |-> "None"]

NoRnd == rnd = [kind |-> "None"]

NoFlt == flt = [kind |-> "None"]

NoGen == gen = [kind |-> "None"]

NoPar == par = [kind |-> "None"]

\* the outcome of a call: the exception raised ("none" when it returns) and
\* the value of self.catalog when the call ends
Outcome(exc, cat) == [exc |-> exc, catalog |-> cat]

\* the source values with the factor 10^-32 applied
ScaledValues(src, name) ==
    LET c == Col(src.cols, name).data
    IN  [r \in DOMAIN c |-> IF "m" \in DOMAIN c[r] THEN Dec(c[r].m, c[r].e - 32) ELSE c[r]]

\* self.cat_array[name]
SourceValues(src, name) == Col(src.cols, name).data

\* a synthesized column of zeros where the sentinel belongs
SentinelZero(rows) == Full(rows, Num(0))

\* the columns synthesized for a band the source lacks
SentinelColumn(rows) == Full(rows, Num(SENTINEL))

\* np.zeros(len(self.cat_array), dtype=int)
ZeroColumn(rows) == Full(rows, Num(0))

\* rfn.append_fields(self.catalog, name, values) without its guard
AppendAlways(cat, name, vals) ==
    Table(cat.rows, Append(cat.cols, Column(name, vals)))

\* rfn.append_fields(self.catalog, name, values), guarded by
\* "if name not in self.catalog.dtype.names"
AppendIfAbsent(cat, name, vals) ==
    IF HasCol(cat.cols, name) THEN cat
    ELSE Table(cat.rows, Append(cat.cols, Column(name, vals)))

\* the body of format_catalog's loop, for one filter
FormatFilter(cat, src, templates, filter_id) ==
    LET fit_colname == Format(templates.flux, filter_id)
        fit_err_colname == Format(templates.err, filter_id)
    IN  IF HasCol(src.cols, fit_colname)
        THEN IF ~HasCol(src.cols, fit_err_colname)
             THEN Outcome("KeyError", cat)
             ELSE Outcome("none",
                      AppendIfAbsent(
                          AppendIfAbsent(cat, fit_colname, SourceValues(src, fit_colname)),
                          fit_err_colname, SourceValues(src, fit_err_colname)))
        ELSE Outcome("none",
                 AppendIfAbsent(
                     AppendIfAbsent(cat, fit_colname, SentinelColumn(src.rows)),
                     fit_err_colname, SentinelColumn(src.rows)))

RECURSIVE FormatFilters(_, _, _, _)
FormatFilters(cat, src, templates, filters) ==
    IF filters = <<>> THEN Outcome("none", cat)
    ELSE LET r == FormatFilter(cat, src, templates, Head(filters))
         IN  IF r.exc # "none" THEN r
             ELSE FormatFilters(r.catalog, src, templates, Tail(filters))

\* "populate additional required columns only if they don't exist"
AppendRequired(cat, src, name, default) ==
    AppendIfAbsent(cat, name,
        IF HasCol(src.cols, name) THEN SourceValues(src, name) ELSE default)

\* format_catalog, on the handler's fields
format_catalog(cat0, src, templates, filters) ==
    LET reset == cat0 = None \/ cat0.rows = 0
    IN  IF src = None
        THEN Outcome(IF reset THEN "TypeError" ELSE "AttributeError", cat0)
        ELSE
        LET cat1 == IF reset THEN Table(src.rows, <<>>) ELSE cat0
        IN  IF ~HasCol(cat1.cols, "label") /\ ~HasCol(src.cols, "label")
            THEN Outcome("KeyError", cat1)
            ELSE
            LET cat2 == IF HasCol(cat1.cols, "label") THEN cat1
                        ELSE AppendIfAbsent(cat1, "label", SourceValues(src, "label"))
                r == FormatFilters(cat2, src, templates, filters)
            IN  IF r.exc # "none" THEN r
                ELSE Outcome("none",
                         AppendRequired(
                             AppendRequired(
                                 AppendRequired(r.catalog, src, "context",
                                                ZeroColumn(src.rows)),
                                 src, "zspec", ZeroColumn(src.rows)),
                             src, "string_data", Full(src.rows, Str(""))))

\* the message of read_catalog's ValueError
Unsupported(name) == "Unsupported catalog file type: " \o name

\* read_catalog with a reader tried whatever the extension
read_any_suffix(name, fs) ==
    IF name \in DOMAIN fs /\ fs[name].kind = "catalog"
    THEN [exc |-> "none", msg |-> "", cat_array |-> Table(fs[name].rows, fs[name].cols)]
    ELSE [exc |-> "OSError", msg |-> "", cat_array |-> None]

\* read_catalog
read_catalog(name, fs) ==
    IF Suffix(name) \in {".asdf", ".parquet"}
    THEN IF fs[name].kind = "catalog"
         THEN [exc |-> "none", msg |-> "", cat_array |-> Table(fs[name].rows, fs[name].cols)]
         ELSE [exc |-> "OSError", msg |-> "", cat_array |-> None]
    ELSE [exc |-> "ValueError", msg |-> Unsupported(name), cat_array |-> None]


(***************************************************************************)
(* The handler's operations.                                               *)
(***************************************************************************)
HLast(op, exc, pre) == [op |-> op, exc |-> exc, pre |-> pre, msg |-> ""]

\* a constructor that raised has built no handler
HandlerAlive == ~(hlast.op = "init" /\ hlast.exc # "none")

\* RomanCatalogHandler.__init__, on the handler's fields
handler_init(catname, templates, fs) ==
    IF catname = ""
    THEN [exc |-> "none", msg |-> "", cat_array |-> None, catalog |-> None]
    ELSE LET rd == read_catalog(catname, fs)
         IN  IF rd.exc # "none"
             THEN [exc |-> rd.exc, msg |-> rd.msg, cat_array |-> None, catalog |-> None]
             ELSE LET fm == format_catalog(Table(0, <<>>), rd.cat_array, templates,
                                           get_roman_filter_list(FALSE))
                  IN  IF fm.exc # "none"
                      THEN [exc |-> fm.exc, msg |-> "", cat_array |-> None,
                            catalog |-> None]
                      ELSE [exc |-> "none", msg |-> "", cat_array |-> rd.cat_array,
                            catalog |-> fm.catalog]

\* RomanCatalogHandler(catname, fit_colname, fit_err_colname)
HandlerNew(catname, templates) ==
    LET h == handler_init(catname, templates, files)
    IN  /\ cat_name' = catname
        /\ fit_templates' = templates
        /\ filter_names' = get_roman_filter_list(FALSE)
        /\ cat_array' = h.cat_array
        /\ catalog' = h.catalog
        /\ hlast' = [HLast("init", h.exc, None) EXCEPT !.msg = h.msg]

\* handler.cat_array = table (test_format_catalog)
AssignCatArray(t) ==
    /\ HandlerAlive
    /\ cat_array # t
    /\ cat_array' = t
    /\ hlast' = HLast("assign", "none", catalog)
    /\ UNCHANGED <<cat_name, catalog, fit_templates, filter_names>>

\* handler.format_catalog()
FormatCatalog ==
    /\ HandlerAlive
    /\ LET fm == format_catalog(catalog, cat_array, fit_templates, filter_names)
       IN  /\ catalog' = fm.catalog
           /\ hlast' = HLast("format_catalog", fm.exc, catalog)
    /\ UNCHANGED <<cat_name, cat_array, fit_templates, filter_names>>

\* handler.process()
HandlerProcess ==
    /\ HandlerAlive
    /\ LET rd == IF cat_array = None THEN read_catalog(cat_name, files)
                 ELSE [exc |-> "none", msg |-> "", cat_array |-> cat_array]
       IN  IF rd.exc # "none"
           THEN /\ hlast' = [HLast("process", rd.exc, catalog) EXCEPT !.msg = rd.msg]
                /\ UNCHANGED <<cat_array, catalog>>
           ELSE /\ cat_array' = rd.cat_array
                /\ IF catalog = None \/ catalog.rows = 0
                   THEN LET fm == format_catalog(Table(0, <<>>), rd.cat_array,
                                                 fit_templates, filter_names)
                        IN  /\ catalog' = fm.catalog
                            /\ hlast' = HLast("process", fm.exc, catalog)
                   ELSE /\ catalog' = catalog
                        /\ hlast' = HLast("process", "none", catalog)
    /\ UNCHANGED <<cat_name, fit_templates, filter_names>>

(***************************************************************************)
(* The handler alone: one catalog on disk, handlers built and used on it,  *)
(* and given that catalog's table or the fixture's directly.               *)
(***************************************************************************)
InitHandler ==
    /\ \E t \in InputTables(MaxDev) :
           files = [n \in Paths |-> IF n \in InputNames THEN CatalogFile(n, t) ELSE Absent]
    /\ cat_name = ""
    /\ fit_templates = PSF_TEMPLATES
    /\ filter_names = get_roman_filter_list(FALSE)
    /\ cat_array = None
    /\ catalog = None
    /\ hlast = HLast("init", "none", None)
    /\ config = default_roman_config
    /\ flux_cols = <<>>
    /\ flux_err_cols = <<>>
    /\ data = Table(0, <<>>)
    /\ inform_stage = None
    /\ estimated = None
    /\ pc = "idle"
    /\ args = None
    /\ plast = None
    /\ run = None
    /\ NoCli /\ NoEnv /\ NoFlx /\ NoSim /\ NoRnd /\ NoFlt /\ NoGen /\ NoPar

NextHandler ==
    \/ \E catname \in InputNames \cup {""}, templates \in {SEGMENT_TEMPLATES, PSF_TEMPLATES} :
           HandlerNew(catname, templates) /\ UNCHANGED <<files, pvars, xvars>>
    \/ \E t \in {Table(files["cat.parquet"].rows, files["cat.parquet"].cols),
                 Table(files["cat.parquet"].rows, FixtureCols(files["cat.parquet"].rows))} :
           AssignCatArray(t) /\ UNCHANGED <<files, pvars, xvars>>
    \/ FormatCatalog /\ UNCHANGED <<files, pvars, xvars>>
    \/ HandlerProcess /\ UNCHANGED <<files, pvars, xvars>>

SpecHandler == InitHandler /\ [][NextHandler]_vars

(***************************************************************************)
(* Properties of the handler (under SpecHandler).                          *)
(***************************************************************************)
\* the last operation was a format_catalog that returned: called directly, or
\* by the constructor, or by process() on a handler without a catalog
FormatRan ==
    /\ hlast.exc = "none"
    /\ \/ hlast.op = "format_catalog"
       \/ hlast.op = "init" /\ cat_name # ""
       \/ hlast.op = "process" /\ (hlast.pre = None \/ hlast.pre.rows = 0)

\* that format_catalog started from an empty catalog
FromScratch == hlast.op \in {"init", "process"} \/ hlast.pre = None \/ hlast.pre.rows = 0

FluxName(i) == Format(fit_templates.flux, filter_names[i])

ErrName(i) == Format(fit_templates.err, filter_names[i])

\* C3: after format_catalog the catalog holds exactly one flux and one
\* flux-error column per configured filter, named by the templates, and no
\* column twice; a call on an already or partially formatted catalog keeps
\* every column that was there, where it was and as it was.
C3_OnePairPerFilter ==
    /\ FormatRan =>
          /\ \A i \in DOMAIN filter_names :
                 /\ Count(catalog.cols, FluxName(i)) = 1
                 /\ Count(catalog.cols, ErrName(i)) = 1
          /\ \A i, j \in DOMAIN catalog.cols :
                 catalog.cols[i].name = catalog.cols[j].name => i = j
          /\ Len(catalog.cols) = 2 * Len(filter_names) + 4
    /\ (hlast.op = "format_catalog" /\ hlast.pre # None /\ hlast.pre.rows > 0) =>
          /\ Len(hlast.pre.cols) <= Len(catalog.cols)
          /\ \A i \in DOMAIN hlast.pre.cols : catalog.cols[i] = hlast.pre.cols[i]

\* a format_catalog that completed a partially formatted catalog
C3_Witness ==
    /\ FormatRan
    /\ hlast.op = "format_catalog"
    /\ hlast.pre # None
    /\ hlast.pre.rows > 0
    /\ Len(hlast.pre.cols) > 1
    /\ Len(hlast.pre.cols) < Len(catalog.cols)

\* C4: formatting a source table from scratch, every filter whose flux and
\* error columns the source lacks gets -99 in every row of both columns, and
\* every filter whose columns the source has gets the source's values.
C4_SentinelOrCopy ==
    (FormatRan /\ FromScratch) =>
        \A i \in DOMAIN filter_names :
            LET has_flux == HasCol(cat_array.cols, FluxName(i))
                has_err == HasCol(cat_array.cols, ErrName(i))
                flux == Col(catalog.cols, FluxName(i)).data
                err == Col(catalog.cols, ErrName(i)).data
            IN  /\ Len(flux) = cat_array.rows
                /\ Len(err) = cat_array.rows
                /\ (~has_flux /\ ~has_err) =>
                       \A r \in 1..cat_array.rows :
                           flux[r] = Num(SENTINEL) /\ err[r] = Num(SENTINEL)
                /\ (has_flux /\ has_err) =>
                       \A r \in 1..cat_array.rows :
                           /\ flux[r] = Col(cat_array.cols, FluxName(i)).data[r]
                           /\ err[r] = Col(cat_array.cols, ErrName(i)).data[r]

\* a source without the F184 band, and with the F062 band, was formatted
C4_Witness ==
    /\ FormatRan
    /\ FromScratch
    /\ fit_templates = SEGMENT_TEMPLATES
    /\ cat_array.rows > 0
    /\ ~HasCol(cat_array.cols, VARIED_FLUX)
    /\ ~HasCol(cat_array.cols, VARIED_ERR)
    /\ HasCol(cat_array.cols, Format(SEGMENT_TEMPLATES.flux, "f062"))
    /\ HasCol(cat_array.cols, Format(SEGMENT_TEMPLATES.err, "f062"))

\* the flux/error pairs of the source and of the formatted catalog, row by row
Pairs ==
    {[src_flux |-> Col(cat_array.cols, FluxName(i)).data[r],
      src_err |-> Col(cat_array.cols, ErrName(i)).data[r],
      flux |-> Col(catalog.cols, FluxName(i)).data[r],
      err |-> Col(catalog.cols, ErrName(i)).data[r]] :
        i \in {k \in DOMAIN filter_names : /\ HasCol(cat_array.cols, FluxName(k))
                                          /\ HasCol(cat_array.cols, ErrName(k))},
        r \in 1..cat_array.rows}

IsSentinelPair(q) == q.src_flux = Num(SENTINEL) /\ q.src_err = Num(SENTINEL)

\* C5 as claimed: the factor 10^-32 is applied to every flux/error pair whose
\* error is positive, and sentinel pairs are left as they are.
C5_ConversionApplied ==
    (FormatRan /\ FromScratch) =>
        \A q \in Pairs :
            IF IsSentinelPair(q) THEN q.flux = q.src_flux /\ q.err = q.src_err
            ELSE q.src_err.m > 0 =>
                    /\ q.flux = Dec(q.src_flux.m, q.src_flux.e - 32)
                    /\ q.err = Dec(q.src_err.m, q.src_err.e - 32)

\* C5 as amended: no conversion is applied; every flux/error pair whose error
\* is positive keeps its mantissa and its exponent, and sentinel pairs are
\* left as they are.
C5_NoConversion ==
    (FormatRan /\ FromScratch) =>
        \A q \in Pairs :
            IF IsSentinelPair(q) THEN q.flux = Num(SENTINEL) /\ q.err = Num(SENTINEL)
            ELSE q.src_err.m > 0 =>
                    /\ q.flux.m = q.src_flux.m /\ q.flux.e = q.src_flux.e
                    /\ q.err.m = q.src_err.m /\ q.err.e = q.src_err.e

\* a source with sentinel pairs and with pairs of positive error was formatted
C5_Witness ==
    /\ FormatRan
    /\ FromScratch
    /\ \E q \in Pairs : IsSentinelPair(q)
    /\ \E q \in Pairs : ~IsSentinelPair(q) /\ q.src_err.m > 0

(***************************************************************************)
(* RomanCatalogProcess: configurations, the external stages, the results.  *)
(***************************************************************************)
\* a configuration read from a JSON file
JSON_CONFIG ==
    [FILTER_LIST |-> << <<"roman/roman_", "F158", ".pb">>,
                        <<"roman/roman_", "F184", ".pb">> >>,
     source |-> "json"]

\* a configuration passed as a dict
DICT_CONFIG ==
    [FILTER_LIST |-> << <<"roman/roman_", "F213", ".pb">>,
                        <<"roman/roman_", "F158", ".pb">>,
                        <<"roman/roman_", "F062", ".pb">> >>,
     source |-> "dict"]

\* the config_filename arguments of the model
ConfigArgs ==
    {[kind |-> "str", name |-> "", value |-> None],
     [kind |-> "str", name |-> CONFIG_JSON, value |-> None],
     [kind |-> "dict", name |-> "", value |-> default_roman_config],
     [kind |-> "dict", name |-> "", value |-> DICT_CONFIG]}

JsonFile(value) == [kind |-> "json", value |-> value]

\* set_config_file
set_config_file(config_filename, fs) ==
    IF config_filename.kind = "str"
    THEN IF config_filename.name # ""
         THEN fs[config_filename.name].value
         ELSE default_roman_config
    ELSE config_filename.value

\* get_data: the handler is built, and the column lists come from its filter names
get_data(input_filename, templates, fs) ==
    LET handler == handler_init(input_filename, templates, fs)
        names == get_roman_filter_list(FALSE)
    IN  IF handler.exc # "none"
        THEN [exc |-> handler.exc, flux_cols |-> <<>>, flux_err_cols |-> <<>>,
              data |-> None]
        ELSE [exc |-> "none",
              flux_cols |-> [i \in DOMAIN names |-> Format(templates.flux, names[i])],
              flux_err_cols |-> [i \in DOMAIN names |-> Format(templates.err, names[i])],
              data |-> handler.catalog]

informer_model_path == MODEL_PATH

\* informer_model_exists: os.path.exists(self.informer_model_path)
informer_model_exists(fs) == fs[informer_model_path] # Absent

\* the per-population settings of create_informer_stage
STAR_OVERRIDES == [k \in {} |-> ""]

GAL_OVERRIDES ==
    [MOD_EXTINC |-> "18,26,26,33,26,33,26,33",
     EXTINC_LAW |-> "SMC_prevot.dat,SB_calzetti.dat,SB_calzetti_bump1.dat,SB_calzetti_bump2.dat",
     EM_LINES |-> "EMP_UV",
     EM_DISPERSION |-> "0.5,1.,1.5"]

QSO_OVERRIDES ==
    [MOD_EXTINC |-> "0,1000", EB_V |-> "0.,0.1,0.2,0.3", EXTINC_LAW |-> "SB_calzetti.dat"]

\* the stage LephareInformer.make_stage builds in create_informer_stage
InformStage(cfg, bands, err_bands) ==
    [kind |-> "stage", model |-> informer_model_path, lephare_config |-> cfg,
     bands |-> bands, err_bands |-> err_bands, ref_band |-> bands[1],
     star_config |-> STAR_OVERRIDES, gal_config |-> GAL_OVERRIDES,
     qso_config |-> QSO_OVERRIDES]

\* create_informer_stage with the galaxy settings written into self.config
informer_stage_merged(cfg, bands, err_bands) ==
    LET merged == [k \in DOMAIN cfg \cup DOMAIN GAL_OVERRIDES |->
                      IF k \in DOMAIN GAL_OVERRIDES THEN GAL_OVERRIDES[k] ELSE cfg[k]]
    IN  [config |-> merged,
         inform_stage |-> [InformStage(merged, bands, err_bands)
                              EXCEPT !.gal_config = STAR_OVERRIDES]]

\* create_informer_stage, on self.config and self.inform_stage
create_informer_stage(cfg, bands, err_bands) ==
    [config |-> cfg, inform_stage |-> InformStage(cfg, bands, err_bands)]

\* the model artifact a completed inform() leaves at the stage's model path
ModelFile(stage) == [kind |-> "model", bands |-> stage.bands]

TempFile == [kind |-> "temp"]

\* namedict of update_input: new column name, key of the estimate's ancil
PHOTOZ_NAMEDICT ==
    << <<"photoz", "Z_BEST">>, <<"photoz_high68", "Z_BEST68_HIGH">>,
       <<"photoz_high90", "Z_BEST90_HIGH">>, <<"photoz_high99", "Z_BEST99_HIGH">>,
       <<"photoz_low68", "Z_BEST68_LOW">>, <<"photoz_low90", "Z_BEST90_LOW">>,
       <<"photoz_low99", "Z_BEST99_LOW">>, <<"photoz_gof", "CHI_BEST">>,
       <<"photoz_sed", "MOD_BEST">> >>

PhotozNames == {PHOTOZ_NAMEDICT[i][1] : i \in DOMAIN PHOTOZ_NAMEDICT}

\* the keys of the estimate's ancil table: those update_input reads, and the
\* two the estimator adds of its own (zmean, zmode)
AncilKeys ==
    [i \in DOMAIN PHOTOZ_NAMEDICT |-> PHOTOZ_NAMEDICT[i][2]] \o <<"zmean", "zmode">>

\* the result of estimate(self.data): one ancil row per catalog row
Estimate(catdata) ==
    [kind |-> "estimate", rows |-> catdata.rows,
     ancil |-> [i \in DOMAIN AncilKeys |->
                   Column(AncilKeys[i], [r \in 1..catdata.rows |-> Num(1000 + 10 * i + r)])]]

\* str.lower() on the output formats of the model
FormatLower(fmt) ==
    CASE fmt = "PARQUET" -> "parquet" [] fmt = "ASDF" -> "asdf" [] OTHER -> fmt

ResultsFile(fmt, cols) == [kind |-> "results", format |-> fmt, cols |-> cols]

PartialFile == [kind |-> "partial"]

\* how a write may go: through, or failing and leaving the destination as it
\* was, or failing and leaving a partly written file
WriteOutcomes == {"ok", "fail_clean", "fail_partial"}

FailedWrite(old, io) == IF io = "fail_partial" THEN PartialFile ELSE old

\* save_results without its check of self.estimated: an empty result is written
save_results_unchecked(est, output_filename, output_format, fs, io) ==
    IF output_filename = <<>>
    THEN [exc |-> "TypeError", files |-> fs, log |-> ""]
    ELSE [exc |-> "none",
          files |-> [fs EXCEPT ![output_filename[1]] =
                        ResultsFile(FormatLower(output_format),
                                    IF est = None THEN <<>> ELSE est.ancil)],
          log |-> "Results saved"]

\* save_results; io is how the write goes
\* a save_results that refuses a format it does not know
save_results_strict(est, output_filename, output_format, fs, io) ==
    IF est # None /\ FormatLower(output_format) \notin {"parquet", "asdf"}
    THEN [exc |-> "ValueError", files |-> fs, log |-> "Unsupported output format"]
    ELSE save_results_unchecked(est, output_filename, output_format, fs, io)

save_results(est, output_filename, output_format, fs, io) ==
    IF est = None
    THEN [exc |-> "ValueError", files |-> fs, log |-> "No results to save"]
    ELSE IF FormatLower(output_format) \in {"parquet", "asdf"}
    THEN IF output_filename = <<>>
         THEN [exc |-> "TypeError", files |-> fs, log |-> ""]
         ELSE IF io # "ok"
         THEN [exc |-> "OSError",
               files |-> [fs EXCEPT ![output_filename[1]] = FailedWrite(@, io)],
               log |-> ""]
         ELSE [exc |-> "none",
               files |-> [fs EXCEPT ![output_filename[1]] =
                             ResultsFile(FormatLower(output_format), est.ancil)],
               log |-> "Results saved"]
    ELSE [exc |-> "none", files |-> fs, log |-> "Results saved"]

\* tab.schema.get_field_index(name)
get_field_index(cols, name) == CHOOSE i \in DOMAIN cols : cols[i].name = name

\* tab.append_column(newname, array): a new field, without field metadata
append_column(tab, newname, vals) ==
    [cols |-> Append(tab.cols, Column(newname, vals)),
     field_meta |-> Append(tab.field_meta, NoMeta)]

\* tab.set_column(i, newname, array): the field at i is replaced by a new one
set_column(tab, i, newname, vals) ==
    [cols |-> [tab.cols EXCEPT ![i] = Column(newname, vals)],
     field_meta |-> [tab.field_meta EXCEPT ![i] = NoMeta]]

\* one pass of update_input's loop that appends whether or not the column exists
AppendOnly(tab, newname, vals) == append_column(tab, newname, vals)

\* one pass of update_input's loop on the PyArrow table
UpdateColumn(tab, newname, vals) ==
    IF ~HasCol(tab.cols, newname)
    THEN append_column(tab, newname, vals)
    ELSE set_column(tab, get_field_index(tab.cols, newname), newname, vals)

\* tab_astro[newname] = array: the column is added, or replaced where it stands,
\* by a plain column that carries no unit and no description
AstropySetItem(yaml, newname) ==
    IF \E i \in DOMAIN yaml : yaml[i].name = newname
    THEN [yaml EXCEPT ![CHOOSE i \in DOMAIN yaml : yaml[i].name = newname] =
             YamlEntry(newname, NoMeta)]
    ELSE Append(yaml, YamlEntry(newname, NoMeta))

RECURSIVE UpdateLoop(_, _, _)
UpdateLoop(state, est, namedict) ==
    IF namedict = <<>> THEN state
    ELSE LET newname == Head(namedict)[1]
             oldname == Head(namedict)[2]
             tab == UpdateColumn([cols |-> state.cols, field_meta |-> state.field_meta],
                                 newname, Col(est.ancil, oldname).data)
         IN  UpdateLoop([cols |-> tab.cols, field_meta |-> tab.field_meta,
                         yaml |-> AstropySetItem(state.yaml, newname)],
                        est, Tail(namedict))

\* update_input; io is how the write goes
update_input(est, input_filename, fs, io) ==
    LET f == fs[input_filename]
    IN  IF f.kind # "catalog" \/ f.format # ".parquet"
        THEN [exc |-> "ArrowInvalid", files |-> fs]
        ELSE IF est = None
        THEN [exc |-> "AttributeError", files |-> fs]
        ELSE IF est.rows # f.rows
        THEN [exc |-> "ArrowInvalid", files |-> fs]
        ELSE IF io # "ok"
        THEN [exc |-> "OSError",
              files |-> [fs EXCEPT ![input_filename] = FailedWrite(@, io)]]
        ELSE LET u == UpdateLoop([cols |-> f.cols, field_meta |-> f.field_meta,
                                  yaml |-> f.yaml], est, PHOTOZ_NAMEDICT)
             IN  [exc |-> "none",
                  files |-> [fs EXCEPT ![input_filename] =
                                [f EXCEPT !.cols = u.cols, !.field_meta = u.field_meta,
                                          !.yaml = u.yaml]]]

\* process with the "else" of its last step lost: the results are saved and
\* the input is updated as well
write_both(est, a, fs, io) ==
    IF a.output_filename # <<>>
    THEN LET w == save_results(est, a.output_filename, a.output_format, fs, "ok")
             u == update_input(est, a.input_filename, w.files, io)
         IN  [exc |-> IF w.exc # "none" THEN w.exc ELSE u.exc, files |-> u.files,
              log |-> w.log]
    ELSE LET u == update_input(est, a.input_filename, fs, io)
         IN  [exc |-> u.exc, files |-> u.files, log |-> ""]

\* the last step of process: save_results when output_filename is given, else
\* update_input
write_results(est, a, fs, io) ==
    IF a.output_filename # <<>>
    THEN save_results(est, a.output_filename, a.output_format, fs, io)
    ELSE LET u == update_input(est, a.input_filename, fs, io)
         IN  [exc |-> u.exc, files |-> u.files, log |-> ""]

(***************************************************************************)
(* The operations of RomanCatalogProcess.  process() is a sequence of      *)
(* steps, one per stage; pc is the call's position.                        *)
(***************************************************************************)
PLast(op, exc, stage, log) == [op |-> op, exc |-> exc, stage |-> stage, log |-> log]

\* the history a call starts with: the file system it found
RunStart(fs) ==
    [files0 |-> fs, model_seen |-> "unchecked", informs |-> 0, informed |-> 0,
     estimates |-> 0, model_used |-> "none"]

\* the inform stage run whatever the file system holds
AlwaysInform(fs) == TRUE

\* a process() that never creates the inform stage
NeverInform(fs) == FALSE

\* "if not self.informer_model_exists": whether process runs the inform stage
NeedsInform(fs) == ~informer_model_exists(fs)

\* process(**args), up to the return of get_data
ProcessCall ==
    /\ pc = "idle"
    /\ run' = RunStart(files)
    /\ LET g == get_data(args.input_filename, args.templates, files)
       IN  IF g.exc # "none"
           THEN /\ pc' = "idle"
                /\ plast' = PLast("process", g.exc, "get_data", "")
                /\ UNCHANGED <<flux_cols, flux_err_cols, data>>
           ELSE /\ pc' = "check"
                /\ plast' = PLast("process", "running", "get_data", "")
                /\ flux_cols' = g.flux_cols
                /\ flux_err_cols' = g.flux_err_cols
                /\ data' = g.data
    /\ UNCHANGED <<config, inform_stage, estimated, args, files>>

\* process: the check of informer_model_exists
ProcCheckModel ==
    /\ pc = "check"
    /\ run' = [run EXCEPT !.model_seen =
                  IF informer_model_exists(files) THEN "present" ELSE "absent"]
    /\ pc' = IF NeedsInform(files) THEN "inform" ELSE "estimate"
    /\ plast' = PLast("process", "running", "check", "")
    /\ UNCHANGED <<config, flux_cols, flux_err_cols, data, inform_stage, estimated, args,
                   files>>

\* process: create_informer_stage; ok is whether the engine's inform() succeeds
ProcInform(ok) ==
    /\ pc = "inform"
    /\ run' = [run EXCEPT !.informs = @ + 1, !.informed = IF ok THEN @ + 1 ELSE @]
    /\ LET r == create_informer_stage(config, flux_cols, flux_err_cols)
       IN  /\ inform_stage' = r.inform_stage
           /\ config' = r.config
    /\ IF ok
       THEN /\ files' = [files EXCEPT ![informer_model_path] = ModelFile(inform_stage')]
            /\ pc' = "estimate"
            /\ plast' = PLast("process", "running", "inform", "")
       ELSE /\ pc' = "idle"
            /\ plast' = PLast("process", "EngineError", "inform", "")
            /\ UNCHANGED files
    /\ UNCHANGED <<flux_cols, flux_err_cols, data, estimated, args>>

\* process: create_estimator_stage; ok is whether the engine's estimate() succeeds
ProcEstimate(ok) ==
    /\ pc = "estimate"
    /\ IF ~informer_model_exists(files) /\ inform_stage = None
       THEN /\ pc' = "idle"
            /\ plast' = PLast("process", "AttributeError", "estimate", "")
            /\ run' = [run EXCEPT !.estimates = @ + 1]
            /\ UNCHANGED <<estimated, files>>
       ELSE /\ run' = [run EXCEPT !.estimates = @ + 1,
                                  !.model_used = IF informer_model_exists(files)
                                                 THEN "path" ELSE "handle"]
            /\ files' = [files EXCEPT ![TMP_NAME] = TempFile]
            /\ IF ok
               THEN /\ estimated' = Estimate(data)
                    /\ pc' = "write"
                    /\ plast' = PLast("process", "running", "estimate", "")
               ELSE /\ pc' = "idle"
                    /\ plast' = PLast("process", "EngineError", "estimate", "")
                    /\ UNCHANGED estimated
    /\ UNCHANGED <<config, flux_cols, flux_err_cols, data, inform_stage, args>>

\* process: save_results when output_filename is given, else update_input
ProcWrite(io) ==
    /\ pc = "write"
    /\ LET w == write_results(estimated, args, files, io)
       IN  /\ files' = w.files
           /\ plast' = PLast("process", w.exc, "write", w.log)
    /\ pc' = "idle"
    /\ UNCHANGED <<config, flux_cols, flux_err_cols, data, inform_stage, estimated, args,
                   run>>

\* rcp.save_results(output_filename, output_format), called on its own
SaveResults(io) ==
    /\ pc = "idle"
    /\ LET w == save_results(estimated, args.output_filename, args.output_format,
                             files, io)
       IN  /\ files' = w.files
           /\ plast' = PLast("save_results", w.exc, "write", w.log)
    /\ run' = RunStart(files)
    /\ UNCHANGED <<config, flux_cols, flux_err_cols, data, inform_stage, estimated, pc,
                   args>>

\* rcp.update_input(input_filename), called on its own
UpdateInput(io) ==
    /\ pc = "idle"
    /\ LET w == update_input(estimated, args.input_filename, files, io)
       IN  /\ files' = w.files
           /\ plast' = PLast("update_input", w.exc, "write", "")
    /\ run' = RunStart(files)
    /\ UNCHANGED <<config, flux_cols, flux_err_cols, data, inform_stage, estimated, pc,
                   args>>

(***************************************************************************)
(* The catalog process: one RomanCatalogProcess object and one catalog on  *)
(* disk; the calls of a behaviour, made one after the other, all take the  *)
(* arguments the behaviour starts with.  output_format is left at its      *)
(* default when no output_filename is given.                               *)
(***************************************************************************)
\* the photo-z columns an input catalog may hold already: none, the nine a
\* previous update left at the end, or one standing among the other columns
Priors == {"none", "all", "one"}

PriorColumn(name, rows) == Column(name, [r \in 1..rows |-> Num(-1)])

AddPrior(t, prior) ==
    CASE prior = "none" -> t
      [] prior = "all" ->
            Table(t.rows, t.cols \o [i \in DOMAIN PHOTOZ_NAMEDICT |->
                                        PriorColumn(PHOTOZ_NAMEDICT[i][1], t.rows)])
      [] prior = "one" ->
            Table(t.rows, <<Head(t.cols), PriorColumn("photoz_sed", t.rows)>>
                          \o Tail(t.cols))

\* the input catalogs of the process: the fixture with and without earlier
\* photo-z columns, the fixture without the F184 band, and the fixture
\* without the F184 error column
ProcInputs ==
    {AddPrior(Table(MaxRows, FixtureCols(MaxRows)), prior) : prior \in Priors}
    \cup {Table(MaxRows, Deviate(FixtureCols(MaxRows), {d})) :
            d \in {[col |-> VARIED_FLUX, kind |-> "dropband"],
                   [col |-> VARIED_ERR, kind |-> "drop"]}}

OutputFormats == {"parquet", "ASDF", "csv"}

OutputNames == {<<>>, <<OUT_NAME>>}

TemplateChoices == {SEGMENT_TEMPLATES, PSF_TEMPLATES}

\* the files create_roman_filters writes for the bands of the default filter
\* list: one transmission file a band, and roman_phot.par
RomanFilters ==
    [kind |-> "filters",
     bands |-> {"roman_" \o DEFAULT_FILTER_LIST[i][2] \o DEFAULT_FILTER_LIST[i][3] :
                   i \in DOMAIN DEFAULT_FILTER_LIST},
     par |-> "roman_phot.par"]

\* a model file an earlier process left behind
EarlierModel ==
    ModelFile(InformStage(default_roman_config,
        [i \in DOMAIN DEFAULT_FILTER_LIST |->
            Format(SEGMENT_TEMPLATES.flux, get_roman_filter_list(FALSE)[i])],
        [i \in DOMAIN DEFAULT_FILTER_LIST |->
            Format(SEGMENT_TEMPLATES.err, get_roman_filter_list(FALSE)[i])]))

Init ==
    /\ \E t \in ProcInputs, i \in InputNames, o \in OutputNames, tpl \in TemplateChoices,
          m \in {Absent, EarlierModel}, filters \in {Absent, RomanFilters} :
       \E f \in IF o = <<>> THEN {"parquet"} ELSE OutputFormats :
           /\ files = [n \in Paths |->
                          IF n = i THEN CatalogFile(n, t)
                          ELSE IF n = CONFIG_JSON THEN JsonFile(JSON_CONFIG)
                          ELSE IF n = informer_model_path THEN m
                          ELSE IF n = FILTER_DIR THEN filters
                          ELSE Absent]
           /\ args = [input_filename |-> i, output_filename |-> o,
                      output_format |-> f, templates |-> tpl]
    /\ \E c \in ConfigArgs : config = set_config_file(c, files)
    /\ flux_cols = <<>>
    /\ flux_err_cols = <<>>
    /\ data = Table(0, <<>>)
    /\ inform_stage = None
    /\ estimated = None
    /\ pc = "idle"
    /\ plast = PLast("init", "none", "", "")
    /\ run = RunStart(files)
    /\ cat_name = ""
    /\ fit_templates = PSF_TEMPLATES
    /\ filter_names = get_roman_filter_list(FALSE)
    /\ cat_array = None
    /\ catalog = None
    /\ hlast = HLast("init", "none", None)
    /\ NoCli /\ NoEnv /\ NoFlx /\ NoSim /\ NoRnd /\ NoFlt /\ NoGen /\ NoPar

Next ==
    \/ ProcessCall /\ UNCHANGED <<hvars, xvars>>
    \/ ProcCheckModel /\ UNCHANGED <<hvars, xvars>>
    \/ \E ok \in BOOLEAN : ProcInform(ok) /\ UNCHANGED <<hvars, xvars>>
    \/ \E ok \in BOOLEAN : ProcEstimate(ok) /\ UNCHANGED <<hvars, xvars>>
    \/ \E io \in WriteOutcomes : ProcWrite(io) /\ UNCHANGED <<hvars, xvars>>
    \/ \E io \in WriteOutcomes : SaveResults(io) /\ UNCHANGED <<hvars, xvars>>
    \/ \E io \in WriteOutcomes : UpdateInput(io) /\ UNCHANGED <<hvars, xvars>>

Spec == Init /\ [][Next]_vars

(***************************************************************************)
(* Properties of the process (under Spec).                                 *)
(***************************************************************************)
\* where the last process() call stands: past the check of the model file, past
\* the inform stage, past the estimate stage
PastCheck ==
    \/ pc \in {"inform", "estimate", "write"}
    \/ pc = "idle" /\ plast.stage \in {"inform", "estimate", "write"}

PastInform ==
    \/ pc \in {"estimate", "write"}
    \/ pc = "idle" /\ plast.stage \in {"inform", "estimate", "write"}

PastEstimate ==
    \/ pc = "write"
    \/ pc = "idle" /\ plast.stage \in {"estimate", "write"}

\* C1: in a process() call the inform stage runs if and only if no file is at
\* informer_model_path when the call checks it, and what the check reports is
\* whether that file exists; the estimate stage runs once in every call that
\* gets to it, never twice, and only after the inform stage, if it ran, has
\* completed.
C1_InformIffModelAbsent ==
    plast.op = "process" =>
        LET absent == run.files0[informer_model_path] = Absent
        IN  /\ run.model_seen # "unchecked" => ((run.model_seen = "absent") <=> absent)
            /\ ~PastCheck => run.informs = 0
            /\ pc = "inform" => absent /\ run.informs = 0
            /\ PastInform => run.informs = (IF absent THEN 1 ELSE 0)
            /\ ~PastEstimate => run.estimates = 0
            /\ PastEstimate => run.estimates = 1
            /\ run.estimates = 1 => run.informed = run.informs

\* a call that found the model file, skipped the inform stage and returned
C1_Witness ==
    /\ pc = "idle"
    /\ plast.op = "process"
    /\ plast.exc = "none"
    /\ run.model_seen = "present"
    /\ run.informs = 0
    /\ run.estimates = 1

\* C2: the column lists handed to the inform and estimate stages follow the
\* FILTER_LIST of the configuration in use: same length, same order, entry i
\* of both lists naming filter i.
C2_ColumnsFollowConfig ==
    (plast.op = "process" /\ pc \in {"inform", "estimate"}) =>
        LET names == FilterNamesOf(config.FILTER_LIST, FALSE)
        IN  /\ Len(flux_cols) = Len(names)
            /\ Len(flux_err_cols) = Len(names)
            /\ \A i \in DOMAIN names :
                   /\ flux_cols[i] = Format(args.templates.flux, names[i])
                   /\ flux_err_cols[i] = Format(args.templates.err, names[i])

\* the last process() call raised
Failed == pc = "idle" /\ plast.op = "process" /\ plast.exc \notin {"none", "running"}

\* the file the last call's results go to
Destination ==
    IF args.output_filename # <<>> THEN args.output_filename[1] ELSE args.input_filename

\* C6 as claimed: a process() call that fails leaves every file as it found it.
C6_NothingWrittenOnFailure == Failed => files = run.files0

\* C6 as amended: a process() call that fails has written at most the model
\* file (if its inform stage ran), the estimator's temporary file (if its
\* estimate stage ran) and, if it failed while writing, its one destination;
\* a failure before the write step leaves the results file and the input file
\* as they were.
C6_FailureLeavesResultsIntact ==
    Failed =>
        \A p \in Paths :
            files[p] # run.files0[p] =>
                \/ p = informer_model_path /\ run.informs = 1
                \/ p = TMP_NAME /\ run.estimates = 1
                \/ p = Destination /\ plast.stage = "write"

\* the inform stage wrote the model and the estimate stage then failed
C6_Witness ==
    /\ Failed
    /\ plast.stage = "estimate"
    /\ run.informed = 1
    /\ files[informer_model_path] # run.files0[informer_model_path]
    /\ files[args.input_filename] = run.files0[args.input_filename]
    /\ files[OUT_NAME] = Absent

\* C7: save_results without an estimate raises, whatever the format and the
\* file name, and leaves every file as it was.
C7_NoResultsNoFile ==
    (plast.op = "save_results" /\ estimated = None) =>
        /\ plast.exc = "ValueError"
        /\ files = run.files0

\* save_results was called for an ASDF file before any estimate
C7_Witness ==
    /\ plast.op = "save_results"
    /\ estimated = None
    /\ args.output_filename = <<OUT_NAME>>
    /\ args.output_format = "ASDF"

\* C8: a process() call that returns has written exactly one destination: the
\* results file, holding the estimate's columns, and not the input, when
\* output_filename is given; the input, and no results file, when it is not.
C8_OneDestination ==
    (pc = "idle" /\ plast.op = "process" /\ plast.exc = "none") =>
        IF args.output_filename # <<>>
        THEN /\ files[OUT_NAME].kind = "results"
             /\ files[OUT_NAME].cols = estimated.ancil
             /\ files[args.input_filename] = run.files0[args.input_filename]
        ELSE /\ files[args.input_filename].kind = "catalog"
             /\ \A n \in PhotozNames : HasCol(files[args.input_filename].cols, n)
             /\ files[OUT_NAME] = run.files0[OUT_NAME]

\* the last operation was an update_input that returned: called directly, or
\* by process() without an output_filename
UpdateDone ==
    /\ pc = "idle"
    /\ plast.exc = "none"
    /\ \/ plast.op = "update_input"
       \/ plast.op = "process" /\ args.output_filename = <<>>

\* the key of the estimate column a photo-z column takes its values from
AncilKeyOf(n) == PHOTOZ_NAMEDICT[CHOOSE i \in DOMAIN PHOTOZ_NAMEDICT :
                                     PHOTOZ_NAMEDICT[i][1] = n][2]

\* C9: update_input leaves every other column where and as it was; each of the
\* nine photo-z columns is there once, holding its estimate column, in its old
\* place if it existed and after the old columns if not; no column is added
\* for a photo-z column that existed.
C9_UpdateInPlace ==
    UpdateDone =>
        LET old == run.files0[args.input_filename].cols
            new == files[args.input_filename].cols
            added == {n \in PhotozNames : ~HasCol(old, n)}
        IN  /\ Len(new) = Len(old) + Cardinality(added)
            /\ \A i \in DOMAIN old :
                   IF old[i].name \in PhotozNames
                   THEN new[i].name = old[i].name
                   ELSE new[i] = old[i]
            /\ \A i \in DOMAIN new : i > Len(old) => new[i].name \in added
            /\ \A n \in PhotozNames :
                   /\ Count(new, n) = 1
                   /\ Col(new, n).data = Col(estimated.ancil, AncilKeyOf(n)).data

\* an update of a catalog that held photoz_sed among its columns, and not photoz
C9_Witness ==
    /\ UpdateDone
    /\ HasCol(run.files0[args.input_filename].cols, "photoz_sed")
    /\ ~HasCol(run.files0[args.input_filename].cols, "photoz")
    /\ run.files0[args.input_filename].cols[2].name = "photoz_sed"

\* C10: after an in-place update every column of the file, the nine photo-z
\* columns included, has a unit and a description in the Parquet field
\* metadata and in table_meta_yaml, and the two agree.
C10_MetadataInSync ==
    UpdateDone =>
        LET f == files[args.input_filename]
        IN  \A i \in DOMAIN f.cols :
                /\ f.field_meta[i].unit # "NOT FOUND"
                /\ f.field_meta[i].description # "NOT FOUND"
                /\ \E k \in DOMAIN f.yaml :
                       /\ f.yaml[k].name = f.cols[i].name
                       /\ f.yaml[k].unit = f.field_meta[i].unit
                       /\ f.yaml[k].description = f.field_meta[i].description

(***************************************************************************)
(* The command-line entry point main() of roman_catalog_process.py: the    *)
(* arguments are parsed, a RomanCatalogProcess is built and process() is   *)
(* called on it once.  cli.log holds what main() and a handler of its own  *)
(* would log; an exception that leaves main() ends the interpreter with    *)
(* its traceback and exit status 1.                                        *)
(***************************************************************************)
LogEntry(level, msg) == [level |-> level, msg |-> msg]

Cli(stage, exc, caught, log, exit) ==
    [kind |-> "cli", stage |-> stage, exc |-> exc, caught |-> caught, log |-> log,
     exit |-> exit]

\* RomanCatalogProcess.__init__: set_config_file on the --config-filename string
process_init(config_filename, fs) ==
    IF config_filename # "" /\ fs[config_filename].kind # "json"
    THEN [exc |-> "FileNotFoundError", config |-> None]
    ELSE [exc |-> "none",
          config |-> set_config_file([kind |-> "str", name |-> config_filename,
                                      value |-> None], fs)]

\* an exception leaves main(): nothing in main() catches or logs it
MainRaises(exc) ==
    cli' = Cli("exited", exc, FALSE, cli.log, 1)

\* main(), up to the construction of the RomanCatalogProcess
MainConstruct(config_filename) ==
    /\ cli.stage = "start"
    /\ LET r == process_init(config_filename, files)
           log == Append(cli.log, LogEntry("info", "Starting Roman catalog processing"))
       IN  IF r.exc # "none"
           THEN /\ cli' = Cli("exited", r.exc, FALSE, log, 1)
                /\ UNCHANGED config
           ELSE /\ cli' = Cli("constructed", "none", FALSE, log, -1)
                /\ config' = r.config
    /\ UNCHANGED <<files, flux_cols, flux_err_cols, data, inform_stage, estimated, pc,
                   args, plast, run>>

\* main(): rcp.process(...) is entered
MainProcess ==
    /\ cli.stage = "constructed"
    /\ ProcessCall
    /\ cli' = [cli EXCEPT !.stage = "process"]

\* main(): a step of the running process() call
MainStep ==
    /\ cli.stage = "process"
    /\ pc # "idle"
    /\ \/ ProcCheckModel
       \/ \E ok \in BOOLEAN : ProcInform(ok)
       \/ \E ok \in BOOLEAN : ProcEstimate(ok)
       \/ \E io \in WriteOutcomes : ProcWrite(io)
    /\ UNCHANGED cli

\* main(): process() has returned or raised
MainReturn ==
    /\ cli.stage = "process"
    /\ pc = "idle"
    /\ IF plast.exc = "none"
       THEN cli' = Cli("exited", "none", FALSE,
                       Append(cli.log, LogEntry("info", "Roman catalog processing completed")),
                       0)
       ELSE MainRaises(plast.exc)
    /\ UNCHANGED <<files, pvars>>

\* the --config-filename arguments of the model
CliConfigNames == {"", CONFIG_JSON}

InitMain ==
    /\ \E i \in InputNames, o \in OutputNames, m \in {Absent, EarlierModel},
          j \in {Absent, JsonFile(JSON_CONFIG)} :
       \E f \in IF o = <<>> THEN {"parquet"} ELSE OutputFormats,
          c \in {Absent, CatalogFile(i, Table(MaxRows, FixtureCols(MaxRows)))} :
           /\ files = [n \in Paths |->
                          IF n = i THEN c
                          ELSE IF n = CONFIG_JSON THEN j
                          ELSE IF n = informer_model_path THEN m
                          ELSE Absent]
           /\ args = [input_filename |-> i, output_filename |-> o,
                      output_format |-> f, templates |-> SEGMENT_TEMPLATES]
    /\ config = None
    /\ flux_cols = <<>>
    /\ flux_err_cols = <<>>
    /\ data = Table(0, <<>>)
    /\ inform_stage = None
    /\ estimated = None
    /\ pc = "idle"
    /\ plast = PLast("init", "none", "", "")
    /\ run = RunStart(files)
    /\ cat_name = ""
    /\ fit_templates = PSF_TEMPLATES
    /\ filter_names = get_roman_filter_list(FALSE)
    /\ cat_array = None
    /\ catalog = None
    /\ hlast = HLast("init", "none", None)
    /\ cli = Cli("start", "none", FALSE, <<>>, -1)
    /\ NoEnv /\ NoFlx /\ NoSim /\ NoRnd /\ NoFlt /\ NoGen /\ NoPar

NextMain ==
    \/ \E c \in CliConfigNames : MainConstruct(c) /\ UNCHANGED <<hvars, env, flx, sim, yvars>>
    \/ MainProcess /\ UNCHANGED <<hvars, env, flx, sim, yvars>>
    \/ MainStep /\ UNCHANGED <<hvars, env, flx, sim, yvars>>
    \/ MainReturn /\ UNCHANGED <<hvars, env, flx, sim, yvars>>

SpecMain == InitMain /\ [][NextMain]_vars

\* C11: an exception raised while main() runs is caught in main(), logged as
\* an error, and turned into exit status 1.
C11_ErrorsCaughtAndLogged ==
    (cli.kind = "cli" /\ cli.stage = "exited" /\ cli.exc # "none") =>
        /\ cli.caught
        /\ \E k \in DOMAIN cli.log : cli.log[k].level = "error"
        /\ cli.exit = 1

(***************************************************************************)
(* Unsupported catalog files (under SpecHandler).                          *)
(***************************************************************************)
UnsupportedSuffix == Suffix(cat_name) \notin {".asdf", ".parquet"}

\* C12: reading a catalog whose extension is neither .asdf nor .parquet raises
\* a ValueError whose message names the path; the read yields no table, no
\* formatting runs (the catalog is what it was before the call), and a
\* constructor that did the read leaves no handler.
C12_UnsupportedRaises ==
    /\ (hlast.op = "init" /\ cat_name # "" /\ UnsupportedSuffix) =>
           /\ hlast.exc = "ValueError"
           /\ hlast.msg = "Unsupported catalog file type: " \o cat_name
           /\ cat_array = None
           /\ catalog = None
           /\ ~HandlerAlive
    /\ (hlast.op = "process" /\ cat_array = None /\ UnsupportedSuffix) =>
           /\ hlast.exc = "ValueError"
           /\ hlast.msg = "Unsupported catalog file type: " \o cat_name
           /\ catalog = hlast.pre

C12_Witness ==
    /\ hlast.op = "init"
    /\ cat_name = "cat.csv"
    /\ files["cat.csv"].kind = "catalog"
    /\ hlast.exc = "ValueError"

(***************************************************************************)
(* The configuration mapping (under Spec).                                 *)
(***************************************************************************)
\* C13: no step of a RomanCatalogProcess changes its configuration mapping;
\* the informer stage is given that mapping as it is, with the settings of
\* the star, galaxy and quasar populations in three dictionaries of their
\* own; a process that uses the module-level default leaves it as it is.
C13_ConfigNeverModified ==
    /\ [][/\ config' = config
          /\ inform_stage' # None =>
                 /\ inform_stage'.lephare_config = config
                 /\ DOMAIN inform_stage'.star_config = {}
                 /\ DOMAIN inform_stage'.gal_config =
                        {"MOD_EXTINC", "EXTINC_LAW", "EM_LINES", "EM_DISPERSION"}
                 /\ DOMAIN inform_stage'.qso_config = {"MOD_EXTINC", "EB_V", "EXTINC_LAW"}
                 /\ DOMAIN inform_stage'.lephare_config = DOMAIN config]_vars
    /\ [](config.source = "default" => config = default_roman_config)

C13_Witness ==
    /\ pc = "estimate"
    /\ inform_stage # None
    /\ inform_stage.lephare_config = config
    /\ config.source = "default"
    /\ files[informer_model_path] = ModelFile(inform_stage)

(***************************************************************************)
(* informer_model_path and the environment.  os.environ maps each of the   *)
(* two variables to whether it is set and to its value; a process object   *)
(* is built with a model file name, the variables are set and deleted, and *)
(* the property is read.                                                   *)
(***************************************************************************)
EnvVar(set, value) == [set |-> set, value |-> value]

Unset == EnvVar(FALSE, "")

Environ(informer, work) == [INFORMER_MODEL_PATH |-> informer, LEPHAREWORK |-> work]

\* os.environ.get(key, default)
environ_get(environ, key, default) ==
    IF environ[key].set THEN environ[key].value ELSE default

\* the directory values of the model
InformerDirs == {"", "/mock/informer/model/path", "/another/mock/path/"}
WorkDirs == {"/lepharework/path", "/lepharework/"}
ModelNames == {"roman_model.pkl", "custom_model.pkl"}

\* pathlib: the directory as Path() keeps it, without a trailing separator
PathOf(dir) ==
    CASE dir = "/another/mock/path/" -> "/another/mock/path"
      [] dir = "/lepharework/" -> "/lepharework"
      [] OTHER -> dir

\* Path(dir, name).as_posix(), for a plain file name
PathJoin(dir, name) ==
    IF PathOf(dir) = "" THEN name ELSE PathOf(dir) \o "/" \o name

\* informer_model_path with LEPHAREWORK looked up first
model_path_work_first(environ, model_filename) ==
    PathJoin(environ_get(environ, "LEPHAREWORK",
                         environ_get(environ, "INFORMER_MODEL_PATH", "")),
             model_filename)

\* RomanCatalogProcess.informer_model_path
model_path_of(environ, model_filename) ==
    PathJoin(environ_get(environ, "INFORMER_MODEL_PATH",
                         environ_get(environ, "LEPHAREWORK", "")),
             model_filename)

Environs ==
    {Environ(a, b) : a \in {Unset} \cup {EnvVar(TRUE, d) : d \in InformerDirs},
                     b \in {Unset} \cup {EnvVar(TRUE, d) : d \in WorkDirs}}

\* env.built: os.environ when the object was built; env.seen and env.path:
\* os.environ at the last read of the property, and the value read
EnvState(environ, built, model_filename, reads, seen, path) ==
    [kind |-> "env", environ |-> environ, built |-> built,
     model_filename |-> model_filename, reads |-> reads, seen |-> seen, path |-> path]

\* monkeypatch.setenv(key, value)
SetEnv(key, value) ==
    /\ env.kind = "env"
    /\ env.environ[key] # EnvVar(TRUE, value)
    /\ env' = [env EXCEPT !.environ[key] = EnvVar(TRUE, value)]

\* monkeypatch.delenv(key)
DelEnv(key) ==
    /\ env.kind = "env"
    /\ env.environ[key].set
    /\ env' = [env EXCEPT !.environ[key] = Unset]

\* rcp.informer_model_path
ReadModelPath ==
    /\ env.kind = "env"
    /\ env' = [env EXCEPT !.reads = TRUE, !.seen = env.environ,
                          !.path = model_path_of(env.environ, env.model_filename)]

InitEnv ==
    /\ \E e \in Environs, n \in ModelNames :
           env = EnvState(e, e, n, FALSE, e, "")
    /\ cat_name = ""
    /\ fit_templates = PSF_TEMPLATES
    /\ filter_names = get_roman_filter_list(FALSE)
    /\ cat_array = None
    /\ catalog = None
    /\ hlast = HLast("init", "none", None)
    /\ files = [n \in Paths |-> Absent]
    /\ config = default_roman_config
    /\ flux_cols = <<>>
    /\ flux_err_cols = <<>>
    /\ data = Table(0, <<>>)
    /\ inform_stage = None
    /\ estimated = None
    /\ pc = "idle"
    /\ args = None
    /\ plast = None
    /\ run = None
    /\ NoCli /\ NoFlx /\ NoSim /\ NoRnd /\ NoFlt /\ NoGen /\ NoPar

NextEnv ==
    \/ \E d \in InformerDirs :
           SetEnv("INFORMER_MODEL_PATH", d) /\ UNCHANGED <<hvars, files, pvars, cli, flx, sim, yvars>>
    \/ \E d \in WorkDirs :
           SetEnv("LEPHAREWORK", d) /\ UNCHANGED <<hvars, files, pvars, cli, flx, sim, yvars>>
    \/ \E k \in {"INFORMER_MODEL_PATH", "LEPHAREWORK"} :
           DelEnv(k) /\ UNCHANGED <<hvars, files, pvars, cli, flx, sim, yvars>>
    \/ ReadModelPath /\ UNCHANGED <<hvars, files, pvars, cli, flx, sim, yvars>>

SpecEnv == InitEnv /\ [][NextEnv]_vars

\* the directory informer_model_path is to use, for the environment e
ExpectedDir(e) ==
    IF e.INFORMER_MODEL_PATH.set THEN e.INFORMER_MODEL_PATH.value
    ELSE IF e.LEPHAREWORK.set THEN e.LEPHAREWORK.value
    ELSE ""

\* os.path.join(dir, name) of the tests, on the directories of the model
ExpectedJoin(dir, name) ==
    IF dir = "" THEN name
    ELSE IF dir \in {"/another/mock/path/", "/lepharework/"} THEN dir \o name
    ELSE dir \o "/" \o name

\* C14: a read of informer_model_path yields the model file name joined to
\* INFORMER_MODEL_PATH if that variable is set at the time of the read, else to
\* LEPHAREWORK if that one is set, else the bare file name.
C14_PathFollowsEnvironment ==
    (env.kind = "env" /\ env.reads) =>
        env.path = ExpectedJoin(ExpectedDir(env.seen), env.model_filename)

\* a read after the variables changed: both variables set, the environment
\* and the path differ from those of the time of construction
C14_Witness ==
    /\ env.kind = "env"
    /\ env.reads
    /\ env.seen # env.built
    /\ env.seen.INFORMER_MODEL_PATH.set
    /\ env.seen.LEPHAREWORK.set
    /\ env.path # model_path_of(env.built, env.model_filename)
    /\ env.path = "/another/mock/path/" \o env.model_filename

(***************************************************************************)
(* update_romanisim_catalog_fluxes: the fluxes of a target catalog are     *)
(* replaced by those of a simulated catalog.  A quantity is the exact      *)
(* rational n/d times the z-th power of the zero point (3631e9 nJy in one  *)
(* maggy); rounding of the floating-point operations is left out.          *)
(***************************************************************************)
FUDGE_FACTOR == 100

RECURSIVE GCD(_, _)
GCD(a, b) == IF b = 0 THEN a ELSE GCD(b, a % b)

Qty(n, d, z) == [n |-> n \div GCD(n, d), d |-> d \div GCD(n, d), z |-> z]

QMul(a, b) == Qty(a.n * b.n, a.d * b.d, a.z + b.z)

QDiv(a, b) == Qty(a.n * b.d, a.d * b.n, a.z - b.z)

\* column * scalar and column * column, element by element
ColTimes(vals, k) == [r \in DOMAIN vals |-> QMul(vals[r], Qty(k, 1, 0))]

\* njy_to_mgy
njy_to_mgy(vals) == [r \in DOMAIN vals |-> Qty(vals[r].n, vals[r].d, vals[r].z - 1)]

\* scale_flux, with a scaling factor given
scale_flux(vals, scaling_factor) ==
    [r \in DOMAIN vals |-> QMul(vals[r], scaling_factor[r])]

\* f"segment_{colname.lower()}_flux"
SegmentFlux(colname) == "segment_" \o Lower(colname) \o "_flux"

\* Table.__setitem__: an existing column is replaced in place, a new one appended
SetItem(cols, name, vals) ==
    IF HasCol(cols, name)
    THEN [i \in DOMAIN cols |-> IF cols[i].name = name THEN Column(name, vals) ELSE cols[i]]
    ELSE Append(cols, Column(name, vals))

\* the message of update_fluxes' ValueError
INVALID_FLUX_CATALOG ==
    "flux_catalog is invalid. This likely indicates that the SimulatedCatalog.process() method did not return a catalog. Make sure to call process(return_catalog=True) when you need the catalog returned instead of saved to file."

\* the outcome of a call: the exception and its message, the columns read
\* before it, the table returned, and the target as the caller then has it
FluxOutcome(exc, msg, reads, table, target) ==
    [exc |-> exc, msg |-> msg, reads |-> reads, table |-> table, target |-> target]

\* the loop body of update_fluxes with the reference column converted like the others
ConvertedColumn(target, flux, colname, ref, apply_scaling) ==
    LET converted == ColTimes(njy_to_mgy(Col(flux.cols, SegmentFlux(colname)).data),
                              FUDGE_FACTOR)
    IN  converted

\* the loop body of update_fluxes: the new values of the column colname
UpdatedColumn(target, flux, colname, ref, apply_scaling) ==
    IF colname = ref
    THEN ColTimes(Col(target.cols, ref).data, FUDGE_FACTOR)
    ELSE LET converted == ColTimes(njy_to_mgy(Col(flux.cols, SegmentFlux(colname)).data),
                                   FUDGE_FACTOR)
             ref_target_vals == Col(target.cols, ref).data
             ref_flux_vals == njy_to_mgy(Col(flux.cols, SegmentFlux(ref)).data)
             scaling_factor == [r \in DOMAIN ref_target_vals |->
                                   QDiv(ref_target_vals[r], ref_flux_vals[r])]
         IN  IF apply_scaling THEN scale_flux(converted, scaling_factor) ELSE converted

RECURSIVE UpdateFilters(_, _, _, _, _, _)
UpdateFilters(updated, target, flux, filter_list, ref, apply_scaling) ==
    IF filter_list = <<>> THEN updated
    ELSE LET colname == Head(filter_list)
             next == IF HasCol(updated, colname)
                     THEN SetItem(updated, colname,
                                  UpdatedColumn(target, flux, colname, ref, apply_scaling))
                     ELSE updated
         IN  UpdateFilters(next, target, flux, Tail(filter_list), ref, apply_scaling)

\* the columns of the flux catalog a call reads
FluxColumnsRead(target, ref) ==
    LET filter_list == get_roman_filter_list(TRUE)
        present == {i \in DOMAIN filter_list :
                       HasCol(target.cols, filter_list[i]) /\ filter_list[i] # ref}
    IN  {SegmentFlux(ref)} \cup {SegmentFlux(filter_list[i]) : i \in present}
            \cup {"label", "redshift_true"}

\* update_fluxes from "fudge_factor = 100" on, the whole of the scripts/ copy
script_update_fluxes(target, flux, apply_scaling, ref_filter) ==
    LET ref == Upper(ref_filter)
    IN  IF ~HasCol(target.cols, ref)
        THEN FluxOutcome("KeyError", ref, <<>>, None, target)
        ELSE IF flux = None
        THEN FluxOutcome("TypeError", "'NoneType' object is not subscriptable",
                         <<ref>>, None, target)
        ELSE IF \E c \in FluxColumnsRead(target, ref) : ~HasCol(flux.cols, c)
        THEN FluxOutcome("KeyError", "", <<ref>>, None, target)
        ELSE IF flux.rows # target.rows
        THEN FluxOutcome("ValueError", "Inconsistent data column lengths",
                         <<ref, SegmentFlux(ref)>>, None, target)
        ELSE LET filters == UpdateFilters(target.cols, target, flux,
                                          get_roman_filter_list(TRUE), ref, apply_scaling)
                 labelled == SetItem(filters, "label", Col(flux.cols, "label").data)
                 updated == SetItem(labelled, "redshift_true",
                                    Col(flux.cols, "redshift_true").data)
             IN  FluxOutcome("none", "", <<ref, SegmentFlux(ref)>>,
                             Table(target.rows, updated), target)

\* update_fluxes of the roman_photoz package
update_fluxes(target, flux, apply_scaling, ref_filter) ==
    IF flux = None \/ flux.rows = 0
    THEN FluxOutcome("ValueError", INVALID_FLUX_CATALOG, <<>>, None, target)
    ELSE script_update_fluxes(target, flux, apply_scaling, ref_filter)

(***************************************************************************)
(* Calls of update_fluxes: a target catalog (fluxes in maggies) and a flux *)
(* catalog (fluxes in nJy, or None, or without rows) are fixed, and one of *)
(* the two copies of update_fluxes is called on them.                      *)
(***************************************************************************)
\* the position of a filter in the default filter list
FilterIndex(f) ==
    LET filter_list == get_roman_filter_list(TRUE)
    IN  CHOOSE i \in DOMAIN filter_list : filter_list[i] = f

\* the column names of the target catalogs of the model
TargetColumnSets ==
    { <<"ra", "F213">>, <<"F184", "ra", "F213">>, <<"F062", "F213", "F184", "label">>,
      <<"ra", "F184">> }

TargetPatterns == {1, 2}

TargetCatalog(rows, names, p) ==
    Table(rows,
          [i \in DOMAIN names |->
              Column(names[i],
                     [r \in 1..rows |->
                         IF names[i] \in {"ra", "label"} THEN Qty(900 + r, 1, 0)
                         ELSE Qty(p * FilterIndex(names[i]) + r, 1, 0)])])

\* a simulated catalog: one flux column per filter but those of without
FluxCatalog(rows, q, without) ==
    LET filter_list == get_roman_filter_list(TRUE)
        kept == SelectSeq(filter_list, LAMBDA f : f \notin without)
    IN  Table(rows,
              [i \in DOMAIN kept |->
                  Column(SegmentFlux(kept[i]),
                         [r \in 1..rows |-> Qty(q * (r + 1) + FilterIndex(kept[i]), 1, 0)])]
                  \o << Column("label", [r \in 1..rows |-> Qty(10 * r, 1, 0)]),
                        Column("redshift_true", [r \in 1..rows |-> Qty(r, 10, 0)]) >>)

FluxCatalogs(rows) ==
    {None, FluxCatalog(0, 1, {}), FluxCatalog(rows, 1, {}), FluxCatalog(rows, 2, {}),
     FluxCatalog(rows, 1, {"F062"})}

FluxCall(target, flux, apply_scaling, ref_filter, called, result) ==
    [kind |-> "flx", target |-> target, flux |-> flux, apply_scaling |-> apply_scaling,
     ref_filter |-> ref_filter, called |-> called, result |-> result]

\* roman_photoz.update_romanisim_catalog_fluxes.update_fluxes(...)
CallUpdateFluxes ==
    /\ flx.kind = "flx"
    /\ flx.called = "no"
    /\ flx' = [flx EXCEPT !.called = "package",
                          !.result = update_fluxes(flx.target, flx.flux, flx.apply_scaling,
                                                   flx.ref_filter)]

\* update_fluxes(...) of scripts/update_romanisim_catalog_fluxes.py
CallScriptUpdateFluxes ==
    /\ flx.kind = "flx"
    /\ flx.called = "no"
    /\ flx' = [flx EXCEPT !.called = "script",
                          !.result = script_update_fluxes(flx.target, flx.flux,
                                                          flx.apply_scaling, flx.ref_filter)]

InitFluxes ==
    /\ \E rows \in 1..MaxRows, names \in TargetColumnSets, p \in TargetPatterns,
          scaling \in BOOLEAN, ref \in {"F213", "f184"} :
       \E fc \in FluxCatalogs(rows) :
           flx = FluxCall(TargetCatalog(rows, names, p), fc, scaling, ref, "no", None)
    /\ cat_name = ""
    /\ fit_templates = PSF_TEMPLATES
    /\ filter_names = get_roman_filter_list(FALSE)
    /\ cat_array = None
    /\ catalog = None
    /\ hlast = HLast("init", "none", None)
    /\ files = [n \in Paths |-> Absent]
    /\ config = default_roman_config
    /\ flux_cols = <<>>
    /\ flux_err_cols = <<>>
    /\ data = Table(0, <<>>)
    /\ inform_stage = None
    /\ estimated = None
    /\ pc = "idle"
    /\ args = None
    /\ plast = None
    /\ run = None
    /\ NoCli /\ NoEnv /\ NoSim /\ NoRnd /\ NoFlt /\ NoGen /\ NoPar

NextFluxes ==
    \/ CallUpdateFluxes /\ UNCHANGED <<hvars, files, pvars, cli, env, sim, yvars>>
    \/ CallScriptUpdateFluxes /\ UNCHANGED <<hvars, files, pvars, cli, env, sim, yvars>>

SpecFluxes == InitFluxes /\ [][NextFluxes]_vars

\* a call of update_fluxes has returned a table
FluxesReturned ==
    /\ flx.kind = "flx"
    /\ flx.called # "no"
    /\ flx.result.exc = "none"

\* the filters of the default list that are columns of the target catalog
TargetFilters ==
    LET filter_list == get_roman_filter_list(TRUE)
    IN  {filter_list[i] : i \in {j \in DOMAIN filter_list :
                                     HasCol(flx.target.cols, filter_list[j])}}

\* q is the quantity num/den times the z-th power of the zero point
IsQuantity(q, num, den, z) == q.n * den = num * q.d /\ q.z = z

\* C15: in the table update_fluxes returns, the reference filter's column is
\* the target's value times 100; every other filter column of the target is
\* the flux catalog's value converted from nJy to maggies times 100, times
\* (target reference value / converted reference value of the flux catalog)
\* of the same row when apply_scaling is set; the table has the target's
\* columns and label and redshift_true, whose values are the flux catalog's.
C15_UpdatedFluxes ==
    FluxesReturned =>
        LET out == flx.result.table.cols
            ref == IF flx.ref_filter = "f184" THEN "F184" ELSE flx.ref_filter
            tref == Col(flx.target.cols, ref).data
            fref == Col(flx.flux.cols, "segment_" \o Lower(ref) \o "_flux").data
        IN  /\ \A f \in TargetFilters : \A r \in 1..flx.target.rows :
                   LET q == Col(out, f).data[r]
                       fv == Col(flx.flux.cols, "segment_" \o Lower(f) \o "_flux").data[r]
                   IN  IF f = ref
                       THEN IsQuantity(q, 100 * tref[r].n, 1, 0)
                       ELSE IF flx.apply_scaling
                       THEN IsQuantity(q, 100 * fv.n * tref[r].n, fref[r].n, 0)
                       ELSE IsQuantity(q, 100 * fv.n, 1, -1)
            /\ {out[i].name : i \in DOMAIN out}
                   = {flx.target.cols[i].name : i \in DOMAIN flx.target.cols}
                         \cup {"label", "redshift_true"}
            /\ \A f \in {"label", "redshift_true"} :
                   /\ Count(out, f) = 1
                   /\ Col(out, f).data = Col(flx.flux.cols, f).data

\* a scaled call on a target with the reference filter, another filter and a
\* label column of its own, and without the filters F087..F158
C15_Witness ==
    /\ FluxesReturned
    /\ flx.called = "package"
    /\ flx.apply_scaling
    /\ flx.ref_filter = "f184"
    /\ HasCol(flx.target.cols, "label")
    /\ HasCol(flx.target.cols, "F062")
    /\ ~HasCol(flx.target.cols, "F106")
    /\ flx.target.rows = MaxRows
    /\ Col(flx.result.table.cols, "F062").data[1]
           # Col(flx.result.table.cols, "F062").data[MaxRows]

\* C16: a call of update_fluxes with a flux catalog that is None or has no
\* rows raises the ValueError that tells the caller to ask for the catalog in
\* memory, before any column of either catalog is read; after every call the
\* target catalog is as it was passed in.
C16_InvalidFluxCatalogRaises ==
    (flx.kind = "flx" /\ flx.called # "no") =>
        /\ (flx.flux = None \/ flx.flux.rows = 0) =>
               /\ flx.result.exc = "ValueError"
               /\ flx.result.msg = INVALID_FLUX_CATALOG
               /\ flx.result.reads = <<>>
               /\ flx.result.table = None
        /\ flx.result.target = flx.target

(***************************************************************************)
(* create_simulated_catalog.py: SimulatedCatalog, and the two other        *)
(* operations of the repository that draw rows at random.  The draws of    *)
(* the random number generators are inputs of the actions.                 *)
(***************************************************************************)
\* table[idx]: the rows at the (1-based) positions idx, in that order
TakeRows(tbl, idx) ==
    Table(Len(idx),
          [c \in DOMAIN tbl.cols |->
              Column(tbl.cols[c].name, [k \in 1..Len(idx) |-> tbl.cols[c].data[idx[k]]])])

\* the sequences rng.choice(total, n, replace=False) can return
Choices(total, n) ==
    {idx \in [1..n -> 1..total] : \A a, b \in 1..n : a # b => idx[a] # idx[b]}

\* the sequences rng.integers(0, total - 1, size=n) can return (positions from 1)
Integers(total, n) == [1..n -> 1..(total - 1)]

NOT_INITIALIZED ==
    "Data array is not initialized. Please run create_simulated_input_catalog first."

TooManyLines(num_lines, total_lines) ==
    "Requested " \o ToString(num_lines) \o " lines, but only " \o ToString(total_lines)
        \o " lines are available."

TOO_MANY_OBJECTS ==
    "number of objects must be smaller than the number of objectsin the target catalog."

\* the outcome of a call: the value returned, or the exception, its message
\* and the numbers the message gives
Returned(value) == [exc |-> "none", msg |-> "", counts |-> {}, value |-> value]

Raised(exc, msg, counts) == [exc |-> exc, msg |-> msg, counts |-> counts, value |-> None]

\* SimulatedCatalog._pick_random_lines, on self.simulated_data
pick_random_lines(sd, num_lines, idx) ==
    IF num_lines > 0
    THEN IF sd = None THEN Raised("ValueError", NOT_INITIALIZED, {})
         ELSE IF num_lines > sd.rows
         THEN Raised("ValueError", TooManyLines(num_lines, sd.rows), {num_lines, sd.rows})
         ELSE Returned(TakeRows(sd, idx))
    ELSE Returned(sd)

\* the --nobj selection of scripts/update_romanisim_catalog_fluxes.py
script_select(tbl, nobj, idx) ==
    IF nobj > tbl.rows THEN Raised("ValueError", TOO_MANY_OBJECTS, {})
    ELSE Returned(TakeRows(tbl, idx))

\* create_random_catalog
create_random_catalog(tbl, n, idx) ==
    IF tbl.rows - 1 <= 0 THEN Raised("ValueError", "low >= high", {})
    ELSE Returned(TakeRows(tbl, idx))

\* "mag" in col, "redshift" in name, on the column names of the library
\* self.filter_list of a SimulatedCatalog
SimFilterList == get_roman_filter_list(FALSE)

MagName(filter_name) == "magnitude" \o filter_name

MagNames == {MagName(SimFilterList[i]) : i \in DOMAIN SimFilterList}

IsMag(name) == name \in MagNames


\* rng.normal(loc=value, scale=mag_noise): the value moved by the draw delta
Noisy(q, delta) == Qty(q.n + delta * q.d, q.d, q.z)

\* the columns _add_error builds from one column of its input; the draws move
\* row r of a magnitude column by dm * r, of any other column by dz * r
NoisyColumns(col, mag_noise, dz, dm) ==
    LET moved == Column(col.name,
                        [r \in DOMAIN col.data |->
                            Noisy(col.data[r], IF IsMag(col.name) THEN dm * r ELSE dz * r)])
    IN  IF IsMag(col.name)
        THEN <<moved, Column(col.name \o "_err",
                             [r \in DOMAIN col.data |-> Qty(mag_noise, 1, 0)])>>
        ELSE <<moved>>

RECURSIVE AddErrorColumns(_, _, _, _)
AddErrorColumns(cols, mag_noise, dz, dm) ==
    IF cols = <<>> THEN <<>>
    ELSE NoisyColumns(Head(cols), mag_noise, dz, dm)
             \o AddErrorColumns(Tail(cols), mag_noise, dz, dm)

\* _add_error that returns its input only for a negative mag_noise
add_error_negative(cat, mag_noise, dz, dm) ==
    IF mag_noise < 0 THEN cat
    ELSE Table(cat.rows, AddErrorColumns(cat.cols, mag_noise, dz, dm))

\* SimulatedCatalog._add_error
add_error(cat, mag_noise, dz, dm) ==
    IF mag_noise <= 0 THEN cat
    ELSE Table(cat.rows, AddErrorColumns(cat.cols, mag_noise, dz, dm))

\* _add_ids: a label column 1..len(catalog), put first
add_ids(cat) ==
    Table(cat.rows, <<Column("label", [r \in 1..cat.rows |-> Qty(r, 1, 0)])>> \o cat.cols)

\* the columns of simulated_data that _create_simulated_input_catalog keeps
KeepColumns(tbl) ==
    Table(tbl.rows,
          SelectSeq(tbl.cols, LAMBDA c : IsMag(c.name) \/ c.name = "redshift"))

\* self.simulated_data[self.simulated_data["redshift"] > 0]
PositiveRedshift(tbl) ==
    LET z == Col(tbl.cols, "redshift").data
        F[k \in 0..tbl.rows] ==
            IF k = 0 THEN <<>>
            ELSE IF z[k].n > 0 THEN Append(F[k - 1], k) ELSE F[k - 1]
    IN  TakeRows(tbl, F[tbl.rows])

\* _create_simulated_roman_catalog: label, a flux and a flux error per filter
\* (the flux of a magnitude is kept as the magnitude it is converted from; the
\* error is relative to it: from the _err column, or 1 percent) and redshift_true
SimulatedRomanCatalog(cat) ==
    LET filter_list == SimFilterList
        Flux(f) == Column(Format(SEGMENT_TEMPLATES.flux, f),
                          [r \in 1..cat.rows |->
                              [abmag |-> Col(cat.cols, MagName(f)).data[r]]])
        FluxErr(f) ==
            Column(Format(SEGMENT_TEMPLATES.err, f),
                   [r \in 1..cat.rows |->
                       [abmag |-> Col(cat.cols, MagName(f)).data[r],
                        rel |-> IF HasCol(cat.cols, MagName(f) \o "_err")
                                THEN Col(cat.cols, MagName(f) \o "_err").data[r]
                                ELSE Qty(1, 100, 0),
                        from_mag_err |-> HasCol(cat.cols, MagName(f) \o "_err")]])
        F[k \in 0..Len(filter_list)] ==
            IF k = 0 THEN <<Column("label", Col(cat.cols, "label").data)>>
            ELSE F[k - 1] \o <<Flux(filter_list[k]), FluxErr(filter_list[k])>>
    IN  Table(cat.rows,
              Append(F[Len(filter_list)],
                     Column("redshift_true", Col(cat.cols, "redshift").data)))

\* a catalog file at the output path
SimFile(tbl) == [kind |-> "parquet", table |-> tbl]

\* save_catalog that never replaces a file
save_catalog_keep(tbl, existing, overwrite) ==
    IF existing # Absent
    THEN [exc |-> "OSError", file |-> existing]
    ELSE [exc |-> "none", file |-> SimFile(tbl)]

\* save_catalog: catalog.write(path, overwrite=overwrite, format="parquet")
save_catalog(tbl, existing, overwrite) ==
    IF existing # Absent /\ ~overwrite
    THEN [exc |-> "OSError", file |-> existing]
    ELSE [exc |-> "none", file |-> SimFile(tbl)]

\* _create_simulated_input_catalog: the outcome, self.simulated_data and the
\* file at the output path after the call
create_simulated_input_catalog(lib, nobj, mag_noise, existing, return_catalog, idx, dz, dm) ==
    LET sd == PositiveRedshift(lib)
        random_lines == pick_random_lines(sd, nobj, idx)
    IN  IF random_lines.exc # "none"
        THEN [out |-> random_lines, simulated_data |-> sd, file |-> existing]
        ELSE LET final_catalog ==
                     SimulatedRomanCatalog(
                         add_ids(add_error(KeepColumns(random_lines.value), mag_noise,
                                           dz, dm)))
                 saved == save_catalog(final_catalog, existing, TRUE)
             IN  IF return_catalog
                 THEN [out |-> Returned(final_catalog), simulated_data |-> sd,
                       file |-> existing]
                 ELSE IF saved.exc # "none"
                 THEN [out |-> Raised(saved.exc, "", {}), simulated_data |-> sd,
                       file |-> saved.file]
                 ELSE [out |-> Returned(None), simulated_data |-> sd, file |-> saved.file]


(***************************************************************************)
(* A SimulatedCatalog built with nobj and mag_noise, the magnitude library *)
(* on disk and the file at the output path.  The catalog is created once;  *)
(* the sampling operations and _add_error are also called on their own.    *)
(***************************************************************************)
\* the magnitude library: redshift, one column that is not kept, and one
\* magnitude per filter; the first row has redshift 0 when zero is set
Library(rows, zero) ==
    LET filter_list == SimFilterList
    IN  Table(rows,
              <<Column("redshift",
                       [r \in 1..rows |-> IF zero /\ r = 1 THEN Qty(0, 1, 0) ELSE Qty(r, 1, 0)]),
                Column("age", [r \in 1..rows |-> Qty(7, 1, 0)])>>
                  \o [i \in DOMAIN filter_list |->
                         Column(MagName(filter_list[i]),
                                [r \in 1..rows |-> Qty(20 + i + r, 1, 0)])])

\* a file left at the output path by an earlier run
OldFile == SimFile(Table(1, <<Column("label", <<Qty(77, 1, 0)>>)>>))

SimLast(op, n, available, arg, ret, pre_file, out) ==
    [op |-> op, n |-> n, available |-> available, arg |-> arg, ret |-> ret,
     pre_file |-> pre_file, out |-> out]

\* the draws of the model: per-row shifts of the other and the magnitude columns
Shifts == {0, 1} \X {-1, 1}

\* simulated_catalog._pick_random_lines(nobj)
PickRandomLines ==
    /\ sim.kind = "sim"
    /\ LET sd == sim.simulated_data
           total == IF sd = None THEN -1 ELSE sd.rows
       IN  \E idx \in IF sim.nobj > 0 /\ sim.nobj <= total
                      THEN Choices(total, sim.nobj) ELSE {<<>>} :
               sim' = [sim EXCEPT !.last =
                          SimLast("pick", sim.nobj, total, None, FALSE, sim.file,
                                  pick_random_lines(sd, sim.nobj, idx))]

\* simulated_catalog._add_error(catalog, mag_noise=self.mag_noise)
AddError ==
    /\ sim.kind = "sim"
    /\ \E d \in Shifts :
           LET arg == KeepColumns(sim.lib)
           IN  sim' = [sim EXCEPT !.last =
                          SimLast("add_error", 0, arg.rows, arg, FALSE, sim.file,
                                  Returned(add_error(arg, sim.mag_noise, d[1], d[2])))]

\* simulated_catalog._create_simulated_input_catalog(return_catalog=...)
CreateCatalog(return_catalog) ==
    /\ sim.kind = "sim"
    /\ sim.simulated_data = None
    /\ LET total == PositiveRedshift(sim.lib).rows
       IN  \E d \in Shifts,
              idx \in IF sim.nobj > 0 /\ sim.nobj <= total
                      THEN Choices(total, sim.nobj) ELSE {<<>>} :
               LET r == create_simulated_input_catalog(sim.lib, sim.nobj, sim.mag_noise,
                                                       sim.file, return_catalog, idx,
                                                       d[1], d[2])
               IN  sim' = [sim EXCEPT !.simulated_data = r.simulated_data,
                                      !.file = r.file,
                                      !.last = SimLast("create", sim.nobj, total, None,
                                                       return_catalog, sim.file, r.out)]

\* scripts/update_romanisim_catalog_fluxes.py --nobj, on the target catalog
ScriptSelect ==
    /\ sim.kind = "sim"
    /\ sim.nobj >= 0
    /\ \E idx \in IF sim.nobj <= sim.lib.rows
                  THEN Choices(sim.lib.rows, sim.nobj) ELSE {<<>>} :
           sim' = [sim EXCEPT !.last =
                      SimLast("select", sim.nobj, sim.lib.rows, sim.lib, FALSE, sim.file,
                              script_select(sim.lib, sim.nobj, idx))]

\* create_random_catalog(table, n)
RandomCatalog ==
    /\ sim.kind = "sim"
    /\ sim.nobj >= 1
    /\ \E idx \in IF sim.lib.rows >= 2 THEN Integers(sim.lib.rows, sim.nobj) ELSE {<<>>} :
           sim' = [sim EXCEPT !.last =
                      SimLast("random", sim.nobj, sim.lib.rows, sim.lib, FALSE, sim.file,
                              create_random_catalog(sim.lib, sim.nobj, idx))]

InitSim ==
    /\ \E rows \in 1..MaxRows, zero \in BOOLEAN, nobj \in {-1, 0, 1, MaxRows, MaxRows + 1},
          mag_noise \in {-1, 0, 1}, f \in {Absent, OldFile} :
           sim = [kind |-> "sim", nobj |-> nobj, mag_noise |-> mag_noise,
                  lib |-> Library(rows, zero), simulated_data |-> None, file |-> f,
                  last |-> SimLast("init", 0, 0, None, FALSE, f, Returned(None))]
    /\ cat_name = ""
    /\ fit_templates = PSF_TEMPLATES
    /\ filter_names = get_roman_filter_list(FALSE)
    /\ cat_array = None
    /\ catalog = None
    /\ hlast = HLast("init", "none", None)
    /\ files = [n \in Paths |-> Absent]
    /\ config = default_roman_config
    /\ flux_cols = <<>>
    /\ flux_err_cols = <<>>
    /\ data = Table(0, <<>>)
    /\ inform_stage = None
    /\ estimated = None
    /\ pc = "idle"
    /\ args = None
    /\ plast = None
    /\ run = None
    /\ NoCli /\ NoEnv /\ NoFlx /\ NoRnd /\ NoFlt /\ NoGen /\ NoPar

NextSim ==
    \/ PickRandomLines /\ UNCHANGED <<hvars, files, pvars, cli, env, flx, yvars>>
    \/ AddError /\ UNCHANGED <<hvars, files, pvars, cli, env, flx, yvars>>
    \/ \E return_catalog \in BOOLEAN :
           CreateCatalog(return_catalog) /\ UNCHANGED <<hvars, files, pvars, cli, env, flx, yvars>>
    \/ ScriptSelect /\ UNCHANGED <<hvars, files, pvars, cli, env, flx, yvars>>
    \/ RandomCatalog /\ UNCHANGED <<hvars, files, pvars, cli, env, flx, yvars>>

SpecSim == InitSim /\ [][NextSim]_vars

(***************************************************************************)
(* Properties of the sampling operations and of SimulatedCatalog (under    *)
(* SpecSim).                                                               *)
(***************************************************************************)
\* the last call drew a requested number of rows at random from a table
SampledMoreThanAvailable ==
    /\ sim.kind = "sim"
    /\ sim.last.op \in {"pick", "select", "random"}
    /\ sim.last.available >= 0
    /\ sim.last.n > sim.last.available

\* C17: an operation that draws a requested number of random rows, asked for
\* more rows than there are, raises an error whose message gives the number
\* requested and the number available, and returns no rows.
C17_TooManyRowsRaises ==
    SampledMoreThanAvailable =>
        /\ sim.last.out.exc # "none"
        /\ {sim.last.n, sim.last.available} \subseteq sim.last.out.counts
        /\ sim.last.out.value = None

\* C18: _pick_random_lines called while simulated_data is None raises the
\* 'not initialized' ValueError, for every number of rows asked for.
C18_UninitializedRaises ==
    (sim.kind = "sim" /\ sim.last.op = "pick" /\ sim.simulated_data = None) =>
        /\ sim.last.out.exc = "ValueError"
        /\ sim.last.out.msg
               = "Data array is not initialized. Please run create_simulated_input_catalog first."

\* C19: _add_error called with mag_noise <= 0 returns the catalog it was
\* given: the same columns with the same values, and no <column>_err column.
C19_NoNoiseReturnsInput ==
    (sim.kind = "sim" /\ sim.last.op = "add_error" /\ sim.mag_noise <= 0) =>
        /\ sim.last.out.exc = "none"
        /\ sim.last.out.value = sim.last.arg
        /\ \A i \in DOMAIN sim.last.out.value.cols :
               \A m \in MagNames : sim.last.out.value.cols[i].name # m \o "_err"

C19_Witness ==
    /\ sim.kind = "sim"
    /\ sim.last.op = "add_error"
    /\ sim.mag_noise = 0
    /\ sim.last.arg.rows = MaxRows
    /\ Len(sim.last.arg.cols) = Len(SimFilterList) + 1

\* the rows of the catalog a creation call with a satisfiable request builds
CreatedRows == IF sim.last.n > 0 THEN sim.last.n ELSE sim.last.available

\* C20: _create_simulated_input_catalog, when its sampling succeeds, returns
\* the catalog and leaves the output path as it was if return_catalog is set;
\* otherwise it returns None and the output path holds the new catalog,
\* whether or not a file was there before.
C20_ReturnOrWrite ==
    (sim.kind = "sim" /\ sim.last.op = "create" /\ sim.last.n <= sim.last.available) =>
        /\ sim.last.out.exc = "none"
        /\ IF sim.last.ret
           THEN /\ sim.last.out.value # None
                /\ sim.last.out.value.rows = CreatedRows
                /\ HasCol(sim.last.out.value.cols, "redshift_true")
                /\ sim.file = sim.last.pre_file
           ELSE /\ sim.last.out.value = None
                /\ sim.file # sim.last.pre_file
                /\ sim.file.kind = "parquet"
                /\ sim.file.table.rows = CreatedRows
                /\ HasCol(sim.file.table.cols, "redshift_true")

\* a catalog written over the file of an earlier run
C20_Witness ==
    /\ sim.kind = "sim"
    /\ sim.last.op = "create"
    /\ ~sim.last.ret
    /\ sim.last.pre_file = OldFile
    /\ sim.last.out.exc = "none"
    /\ sim.file.table.rows = MaxRows

\* a catalog returned with a file of an earlier run left in place
C20_WitnessReturned ==
    /\ sim.kind = "sim"
    /\ sim.last.op = "create"
    /\ sim.last.ret
    /\ sim.file = OldFile
    /\ sim.last.out.value # None

(***************************************************************************)
(* create_random_catalog with its seed: update_romanisim_catalog_fluxes.   *)
(* Every call builds its own generator from the seed.  What a generator    *)
(* yields is not known to the model: a stream is any function from the     *)
(* seed and the position to the raw value drawn there, fixed for the whole *)
(* behaviour.                                                              *)
(***************************************************************************)
\* positions of a generator's stream the model distinguishes
StreamLen == 3

\* every variable of the handler, the process and the file system at rest
IdleObjects ==
    /\ cat_name = ""
    /\ fit_templates = PSF_TEMPLATES
    /\ filter_names = get_roman_filter_list(FALSE)
    /\ cat_array = None
    /\ catalog = None
    /\ hlast = HLast("init", "none", None)
    /\ files = [n \in Paths |-> Absent]
    /\ config = default_roman_config
    /\ flux_cols = <<>>
    /\ flux_err_cols = <<>>
    /\ data = Table(0, <<>>)
    /\ inform_stage = None
    /\ estimated = None
    /\ pc = "idle"
    /\ args = None
    /\ plast = None
    /\ run = None

\* the seeds of the calls: the default of the signature and another one
Seeds == {13, 42}

\* np.random.default_rng(seed): the raw values a generator yields, by position
Streams == [Seeds -> [1..StreamLen -> 0..1]]

\* a generator that is not rebuilt by the call but goes on where the earlier
\* calls stopped
integers_shared_generator(stream, seed, high, n) ==
    [k \in 1..n |-> (stream[seed][((rnd.draws + k - 1) % StreamLen) + 1] % high) + 1]

\* rng = np.random.default_rng(seed); rng.integers(0, high, size=n), as row
\* numbers counted from one
seeded_integers(stream, seed, high, n) ==
    [k \in 1..n |-> (stream[seed][k] % high) + 1]

\* create_random_catalog(table, n, seed)
create_random_catalog_seeded(stream, tbl, n, seed) ==
    create_random_catalog(tbl, n, seeded_integers(stream, seed, tbl.rows - 1, n))

\* the tables the calls sample
RandomTables == {Library(MaxRows + 1, z) : z \in BOOLEAN}

\* the numbers of rows the calls ask for
RandomCounts == {1, 2}

RndCall(tbl, n, seed, out) == [table |-> tbl, n |-> n, seed |-> seed, out |-> out]

\* one call of create_random_catalog(table, n, seed)
SeededRandomCatalog(tbl, n, seed) ==
    /\ rnd.kind = "rnd"
    /\ LET call == RndCall(tbl, n, seed,
                           create_random_catalog_seeded(rnd.stream, tbl, n, seed))
       IN  rnd' = [rnd EXCEPT !.first = IF rnd.first = None THEN call ELSE @,
                              !.last = call,
                              !.calls = IF @ < 3 THEN @ + 1 ELSE @,
                              !.draws = (@ + n) % StreamLen]

InitRandom ==
    /\ \E stream \in Streams :
           rnd = [kind |-> "rnd", stream |-> stream, first |-> None, last |-> None,
                  calls |-> 0, draws |-> 0]
    /\ IdleObjects
    /\ NoCli /\ NoEnv /\ NoFlx /\ NoSim /\ NoFlt /\ NoGen /\ NoPar

NextRandom ==
    \E tbl \in RandomTables, n \in RandomCounts, seed \in Seeds :
        SeededRandomCatalog(tbl, n, seed)
            /\ UNCHANGED <<hvars, files, pvars, cli, env, flx, sim, flt, gen, par>>

SpecRandom == InitRandom /\ [][NextRandom]_vars

SameArguments(a, b) == a.table = b.table /\ a.n = b.n /\ a.seed = b.seed

MaxSamples == 12

\* buf = 5
BUF == 5

MinOf(S) == CHOOSE x \in S : \A y \in S : x <= y

MaxOf(S) == CHOOSE x \in S : \A y \in S : x >= y

\* np.flatnonzero(data[col] > 0), as sample numbers counted from one
flatnonzero(thru) == {i \in 1..Len(thru) : thru[i] > 0}

\* output_data[start:stop] of a table given as the sequence of its rows
Slice(rows, start, stop) ==
    IF stop <= start THEN <<>> ELSE [k \in 1..(stop - start) |-> rows[start + k]]

\* the rows [wave, col] of the effective-area table
EffAreaRows(thru) == [i \in 1..Len(thru) |-> [wave |-> i, thru |-> thru[i]]]

\* output_data.loc[:, wave] = output_data[wave] * 1e4
ToAngstrom(rows) == [k \in DOMAIN rows |-> [rows[k] EXCEPT !.wave = @ * 10000]]

\* "roman" + "_".join(col.split(" ")).strip() + ".pb"
FilterFileName(col) == "roman" \o col \o ".pb"

\* create_roman_phot_par_file(filter_list, filter_rep): roman_phot.par
roman_phot_par(filter_list) ==
    [kind |-> "par", name |-> "roman_phot.par", FILTER_LIST |-> filter_list,
     FILTER_CALIB |-> [i \in DOMAIN filter_list |-> "0"]]

\* create_files(data) for a table with the wavelengths and the column col:
\* the file of the band and roman_phot.par
create_files(col, thru) ==
    LET nonzero == flatnonzero(thru)
    IN  IF nonzero = {} THEN
            Raised("ValueError", "zero-size array to reduction operation minimum", {})
        ELSE
            LET start0 == MinOf(nonzero) - 1
                stop0 == MaxOf(nonzero) - 1
                start == IF start0 - BUF < 0 THEN 0 ELSE start0 - BUF
                stop == IF stop0 + BUF > Len(thru) THEN Len(thru) ELSE stop0 + BUF
            IN  Returned([band |-> [kind |-> "filter", name |-> FilterFileName(col),
                                    rows |-> ToAngstrom(Slice(EffAreaRows(thru),
                                                              start, stop))],
                          par |-> roman_phot_par(<<FilterFileName(col)>>)])

\* the throughput columns: every pattern of zero and positive samples
Throughputs == UNION {[1..n -> 0..1] : n \in 1..MaxSamples}

\* create_files(data) on a table with the band F062
CreateFiles ==
    /\ flt.kind = "flt"
    /\ flt.result = None
    /\ flt' = [flt EXCEPT !.result = create_files("F062", flt.thru)]

InitFilters ==
    /\ \E thru \in Throughputs : flt = [kind |-> "flt", thru |-> thru, result |-> None]
    /\ IdleObjects
    /\ NoCli /\ NoEnv /\ NoFlx /\ NoSim /\ NoRnd /\ NoGen /\ NoPar

NextFilters ==
    CreateFiles /\ UNCHANGED <<hvars, files, pvars, cli, env, flx, sim, rnd, gen, par>>

SpecFilters == InitFilters /\ [][NextFilters]_vars

\* the samples of the written file, by their number in the table
WrittenSamples ==
    {flt.result.value.band.rows[k].wave \div 10000 : k \in DOMAIN flt.result.value.band.rows}

\* C22: the written transmission file of a band keeps exactly the samples
\* from 5 before the first non-zero throughput through 5 after the last one,
\* clamped to the table: the same padding on both sides.
C22_SymmetricPadding ==
    (flt.kind = "flt" /\ flt.result # None /\ flatnonzero(flt.thru) # {})
        => /\ flt.result.exc = "none"
           /\ WrittenSamples =
                  {i \in 1..Len(flt.thru) :
                      /\ i >= MinOf(flatnonzero(flt.thru)) - BUF
                      /\ i <= MaxOf(flatnonzero(flt.thru)) + BUF}

(***************************************************************************)
(* The filter files and RomanCatalogProcess.process().                     *)
(***************************************************************************)
\* C23: in every run of process(), the transmission files of the bands and
\* roman_phot.par exist (checked, and generated when absent) before the
\* inform stage or the estimate stage runs.
C23_FiltersEnsuredBeforeStages ==
    (run # None /\ run.informs + run.estimates > 0) => files[FILTER_DIR] # Absent

(***************************************************************************)
(* SimulatedCatalog.process(): the filter files and the library of         *)
(* synthetic magnitudes.  A file name is the sequence of its parts, so     *)
(* that the pattern *roman_* of the presence test is a test of the parts.  *)
(***************************************************************************)
\* calls of process() in one behaviour
MaxRuns == 3

\* the names create_files and create_roman_phot_par_file write
GeneratedNames ==
    {<<"roman_", DEFAULT_FILTER_LIST[i][2], DEFAULT_FILTER_LIST[i][3]>> :
        i \in DOMAIN DEFAULT_FILTER_LIST} \cup {<<"roman_", "phot.par">>}

\* what FILTER_REP/roman holds before the first run
FilterDirs == {{}, {<<"README">>}, {<<"roman_", "phot.par">>}, GeneratedNames}

\* any(path.glob(f"*{partial_text}*")) on an existing directory
is_folder_not_empty(names, partial_text) ==
    \E name \in names : \E k \in DOMAIN name : name[k] = partial_text

\* create_path(""): $LEPHAREDIR/filt/roman when LEPHAREDIR is set in the
\* environment, else the current directory
create_path(lepharedir_set) == IF lepharedir_set THEN "filter_rep" ELSE "cwd"

\* the settings of lephare_config the library depends on
LibConfigs == [GAL_LIB_OUT : {"GAL_COSMOS", "GAL_OTHER"}, Z_STEP : {"0.01,0.,7.", "0.1,0.,3."}]

\* Path(LEPHAREWORK, "lib_mag", f"{fname}.dat")
catalog_name(cfg) == cfg.GAL_LIB_OUT

\* the library lp.prepare writes for a configuration
LibFile(cfg, run_no) == [kind |-> "lib", Z_STEP |-> cfg.Z_STEP, written_in |-> run_no]

\* the library files before the first run
InitialLibs ==
    {[n \in {"GAL_COSMOS", "GAL_OTHER"} |-> IF n \in S THEN LibFile([Z_STEP |-> z], 0)
                                             ELSE Absent] :
        S \in SUBSET {"GAL_COSMOS"}, z \in {"0.01,0.,7."}}

\* a library that is regenerated on every call
create_simulated_data_always(libs, cfg, refresh_lib_mag, run_no, ok) ==
    [prepared |-> TRUE,
     libs |-> IF ok THEN [libs EXCEPT ![catalog_name(cfg)] = LibFile(cfg, run_no)] ELSE libs,
     exc |-> IF ok THEN "none" ELSE "RuntimeError"]

\* _create_simulated_data(refresh_lib_mag): ok is whether lp.prepare succeeds
create_simulated_data(libs, cfg, refresh_lib_mag, run_no, ok) ==
    IF libs[catalog_name(cfg)] # Absent /\ ~refresh_lib_mag
    THEN [prepared |-> FALSE, libs |-> libs, exc |-> "none"]
    ELSE [prepared |-> TRUE,
          libs |-> IF ok THEN [libs EXCEPT ![catalog_name(cfg)] = LibFile(cfg, run_no)]
                   ELSE libs,
          exc |-> IF ok THEN "none" ELSE "RuntimeError"]

GenStep(op, exc, present, generated, prepared, libs0) ==
    [op |-> op, exc |-> exc, present |-> present, generated |-> generated,
     prepared |-> prepared, libs0 |-> libs0]

\* sim.lephare_config[...] = ...; sim.process(refresh_lib_mag=...)
GenProcess(cfg, refresh_lib_mag) ==
    /\ gen.kind = "gen"
    /\ gen.pc = "idle"
    /\ gen.runs < MaxRuns
    /\ gen' = [gen EXCEPT !.pc = "filters", !.runs = @ + 1, !.cfg = cfg,
                          !.refresh = refresh_lib_mag,
                          !.last = GenStep("process", "none", FALSE, FALSE, FALSE, gen.libs)]

\* self._create_filter_files(): ok is whether create_roman_filters.run() succeeds
GenCreateFilterFiles(ok) ==
    /\ gen.kind = "gen"
    /\ gen.pc = "filters"
    /\ LET present == is_folder_not_empty(gen.dirs["filter_rep"], "roman_")
           path == create_path(gen.lepharedir_set)
       IN  IF present THEN
               gen' = [gen EXCEPT !.pc = "library",
                                  !.last = GenStep("filters", "none", TRUE, FALSE, FALSE,
                                                   gen.libs)]
           ELSE IF ok THEN
               gen' = [gen EXCEPT !.pc = "library",
                                  !.dirs[path] = @ \cup GeneratedNames,
                                  !.generations = @ + 1,
                                  !.last = GenStep("filters", "none", FALSE, TRUE, FALSE,
                                                   gen.libs)]
           ELSE
               gen' = [gen EXCEPT !.pc = "idle",
                                  !.last = GenStep("filters", "HTTPError", FALSE, FALSE, FALSE,
                                                   gen.libs)]

\* self._create_simulated_data(refresh_lib_mag=refresh_lib_mag)
GenCreateSimulatedData(ok) ==
    /\ gen.kind = "gen"
    /\ gen.pc = "library"
    /\ LET r == create_simulated_data(gen.libs, gen.cfg, gen.refresh, gen.runs, ok)
       IN  gen' = [gen EXCEPT !.pc = IF r.exc = "none" THEN "catalog" ELSE "idle",
                              !.libs = r.libs,
                              !.last = GenStep("library", r.exc, gen.last.present,
                                               gen.last.generated, r.prepared, gen.libs)]

\* self._create_simulated_input_catalog(...), which reads the library and
\* leaves the filter files and the library as they are; return result
GenCreateCatalog ==
    /\ gen.kind = "gen"
    /\ gen.pc = "catalog"
    /\ gen' = [gen EXCEPT !.pc = "idle", !.last.op = "catalog"]

InitGen ==
    /\ \E lepharedir_set \in BOOLEAN, d \in FilterDirs, libs \in InitialLibs,
          cfg \in LibConfigs :
           gen = [kind |-> "gen", lepharedir_set |-> lepharedir_set,
                  dirs |-> [p \in {"filter_rep", "cwd"} |-> IF p = "filter_rep" THEN d ELSE {}],
                  libs |-> libs, cfg |-> cfg, refresh |-> FALSE, pc |-> "idle", runs |-> 0,
                  generations |-> 0,
                  last |-> GenStep("init", "none", FALSE, FALSE, FALSE, libs)]
    /\ IdleObjects
    /\ NoCli /\ NoEnv /\ NoFlx /\ NoSim /\ NoRnd /\ NoFlt /\ NoPar

NextGen ==
    \/ \E cfg \in LibConfigs, refresh_lib_mag \in BOOLEAN :
           GenProcess(cfg, refresh_lib_mag)
               /\ UNCHANGED <<hvars, files, pvars, cli, env, flx, sim, rnd, flt, par>>
    \/ \E ok \in BOOLEAN :
           GenCreateFilterFiles(ok)
               /\ UNCHANGED <<hvars, files, pvars, cli, env, flx, sim, rnd, flt, par>>
    \/ \E ok \in BOOLEAN :
           GenCreateSimulatedData(ok)
               /\ UNCHANGED <<hvars, files, pvars, cli, env, flx, sim, rnd, flt, par>>
    \/ GenCreateCatalog /\ UNCHANGED <<hvars, files, pvars, cli, env, flx, sim, rnd, flt, par>>

SpecGen == InitGen /\ [][NextGen]_vars

\* C24: process() checks for the filter files before it generates the
\* library and the catalog, generates them if and only if FILTER_REP/roman
\* holds no file whose name contains 'roman_', and a completed generation is
\* found by the check of every later run: across repeated runs the filter
\* files are generated at most once.
C24_GeneratedAtMostOnce ==
    gen.kind = "gen"
        => /\ gen.generations <= 1
           /\ gen.last.op \in {"filters", "library", "catalog"} /\ gen.last.exc = "none"
                  => gen.last.generated = ~gen.last.present
           /\ gen.last.op = "process" => gen.libs = gen.last.libs0

\* the library step of the running call has acted
LibraryStepDone == gen.kind = "gen" /\ gen.last.op = "library"

\* C30: _create_simulated_data calls the external engine to regenerate the
\* library if and only if the library file is absent or refresh_lib_mag is
\* true; when the file exists and no refresh is requested the engine is not
\* called and the library files are left as they were, whatever the
\* configuration holds.
C30_RegeneratesIffAbsentOrRefresh ==
    LibraryStepDone
        => /\ gen.last.prepared
                  <=> (gen.last.libs0[catalog_name(gen.cfg)] = Absent \/ gen.refresh)
           /\ ~gen.last.prepared => gen.libs = gen.last.libs0
           /\ (gen.last.prepared /\ gen.last.exc = "none")
                  => gen.libs[catalog_name(gen.cfg)] = LibFile(gen.cfg, gen.runs)

\* a library written for another redshift grid is found, no refresh is asked
\* for, and the step returns without calling the engine
C30_Witness ==
    /\ LibraryStepDone
    /\ gen.last.libs0[catalog_name(gen.cfg)] # Absent
    /\ gen.last.libs0[catalog_name(gen.cfg)].Z_STEP # gen.cfg.Z_STEP
    /\ ~gen.refresh
    /\ ~gen.last.prepared
    /\ gen.libs = gen.last.libs0

\* a library that exists is regenerated because a refresh is asked for
C30_WitnessRefresh ==
    /\ LibraryStepDone
    /\ gen.last.libs0[catalog_name(gen.cfg)] # Absent
    /\ gen.refresh
    /\ gen.last.prepared
    /\ gen.last.exc = "none"
    /\ gen.libs # gen.last.libs0

(***************************************************************************)
(* _add_error with a positive noise, and the rows create_random_catalog    *)
(* can return.                                                             *)
(***************************************************************************)
ColumnsNamed(tbl, name) == {i \in DOMAIN tbl.cols : tbl.cols[i].name = name}

\* C25: with a positive noise _add_error perturbs the magnitude columns only:
\* every other column (the true redshift) is returned as it was given, and
\* every magnitude column gets exactly one companion column <column>_err.
C25_OnlyMagnitudesPerturbed ==
    (sim.kind = "sim" /\ sim.last.op = "add_error" /\ sim.mag_noise > 0) =>
        /\ sim.last.out.exc = "none"
        /\ \A i \in DOMAIN sim.last.arg.cols :
               LET col == sim.last.arg.cols[i]
               IN  IF IsMag(col.name)
                   THEN Cardinality(ColumnsNamed(sim.last.out.value, col.name \o "_err")) = 1
                   ELSE /\ Cardinality(ColumnsNamed(sim.last.out.value, col.name \o "_err")) = 0
                        /\ \E j \in DOMAIN sim.last.out.value.cols :
                               sim.last.out.value.cols[j] = col

\* row r of a table, as the sequence of its cells
RowOf(tbl, r) == [c \in DOMAIN tbl.cols |-> tbl.cols[c].data[r]]

\* C26: create_random_catalog(table, n) returns exactly n rows, each a row of
\* the table, drawn from all its rows, for every table with at least one row.
C26_RowsOfWholeTable ==
    (sim.kind = "sim" /\ sim.last.op = "random" /\ sim.last.available >= 1) =>
        /\ sim.last.out.exc = "none"
        /\ sim.last.out.value.rows = sim.last.n
        /\ \A k \in 1..sim.last.n :
               \E r \in 1..sim.last.available :
                   RowOf(sim.last.out.value, k) = RowOf(sim.last.arg, r)

(***************************************************************************)
(* create_estimator_stage and the inform stage; save_results and formats   *)
(* it does not know.                                                       *)
(***************************************************************************)
\* C28: within one process() call, with nobody else creating or deleting the
\* model file, create_estimator_stage never reads the inform stage while it
\* is None: it takes the model path whenever the model file exists at its
\* check, and the handle of the inform stage only when the inform stage was
\* created earlier in the same call.
C28_InformStageNeverReadUnset ==
    (run # None /\ run.estimates > 0) =>
        /\ plast.exc # "AttributeError"
        /\ run.model_used \in {"path", "handle"}
        /\ run.model_used = "path" <=> informer_model_exists(files)
        /\ run.model_used = "handle" => (run.informed >= 1 /\ inform_stage # None)
        /\ run.model_seen = "absent" => (run.informed >= 1 /\ inform_stage # None)

\* the model was absent at the check of process(), the inform stage was
\* created and trained, and the estimator stage then ran on the model file
C28_Witness ==
    /\ run # None
    /\ run.model_seen = "absent"
    /\ run.informed = 1
    /\ run.estimates = 1
    /\ run.model_used = "path"
    /\ inform_stage # None
    /\ plast.exc # "AttributeError"

\* the format asked for is neither parquet nor asdf, in any case of letters
OtherFormat == FormatLower(args.output_format) \notin {"parquet", "asdf"}

\* C29: save_results with an estimate present and an output_format other
\* than 'parquet' or 'asdf' (compared without regard to case) writes no file
\* and raises no error: it returns after logging that the results were saved.
C29_OtherFormatWritesNothing ==
    (plast # None /\ estimated # None /\ OtherFormat) =>
        /\ plast.op = "save_results"
               => /\ plast.exc = "none"
                  /\ plast.log = "Results saved"
                  /\ files = run.files0
        /\ (plast.op = "process" /\ plast.stage = "write" /\ args.output_filename # <<>>)
               => /\ plast.exc = "none"
                  /\ plast.log = "Results saved"
                  /\ files[OUT_NAME] = run.files0[OUT_NAME]

\* save_results(output_filename, "csv") returned with estimates at hand and
\* no output file exists
C29_Witness ==
    /\ plast # None
    /\ plast.op = "save_results"
    /\ estimated # None
    /\ args.output_format = "csv"
    /\ args.output_filename # <<>>
    /\ plast.exc = "none"
    /\ plast.log = "Results saved"
    /\ files[OUT_NAME] = Absent

(***************************************************************************)
(* Two process() calls, each on its own RomanCatalogProcess, running at    *)
(* the same time on one model path.  The file system is shared; a step of  *)
(* the model is one of the calls going from one statement of process() to  *)
(* the next.                                                               *)
(***************************************************************************)
Procs == {1, 2}

\* the fit templates of the two calls
RaceTemplates(p) == IF p = 1 THEN SEGMENT_TEMPLATES ELSE PSF_TEMPLATES

\* the inform stage the call p creates
RaceStage(p) ==
    create_informer_stage(default_roman_config,
        [i \in DOMAIN DEFAULT_FILTER_LIST |->
            Format(RaceTemplates(p).flux, get_roman_filter_list(FALSE)[i])],
        [i \in DOMAIN DEFAULT_FILTER_LIST |->
            Format(RaceTemplates(p).err, get_roman_filter_list(FALSE)[i])]).inform_stage

\* an inform stage that creates the model file only if there is none
informer_write_exclusive(fs, stage) ==
    IF informer_model_exists(fs) THEN fs
    ELSE [fs EXCEPT ![informer_model_path] = ModelFile(stage)]

\* self.inform_stage.inform(...): the trained model is written to the model
\* path, over whatever is there
informer_write(fs, stage) == [fs EXCEPT ![informer_model_path] = ModelFile(stage)]

\* self.get_data(...) of the call p
RaceGetData(p) ==
    /\ par.kind = "par"
    /\ par.pc[p] = "idle"
    /\ par' = [par EXCEPT !.pc[p] = "check"]
    /\ UNCHANGED files

\* if not self.informer_model_exists: of the call p
RaceCheckModel(p) ==
    /\ par.kind = "par"
    /\ par.pc[p] = "check"
    /\ par' = [par EXCEPT !.seen[p] = IF informer_model_exists(files) THEN "present"
                                      ELSE "absent",
                          !.pc[p] = IF NeedsInform(files) THEN "inform" ELSE "estimate"]
    /\ UNCHANGED files

\* self.create_informer_stage() of the call p: ok is whether the engine succeeds
RaceInform(p, ok) ==
    /\ par.kind = "par"
    /\ par.pc[p] = "inform"
    /\ IF ok
       THEN /\ files' = informer_write(files, RaceStage(p))
            /\ par' = [par EXCEPT !.pc[p] = "estimate", !.stage[p] = RaceStage(p),
                                  !.informed[p] = TRUE,
                                  !.wrote[p] = files' # files,
                                  !.writes = IF files' # files THEN @ + 1 ELSE @]
       ELSE /\ par' = [par EXCEPT !.pc[p] = "failed", !.stage[p] = RaceStage(p)]
            /\ UNCHANGED files

\* self.create_estimator_stage() of the call p: ok is whether the engine
\* succeeds
RaceEstimate(p, ok) ==
    /\ par.kind = "par"
    /\ par.pc[p] = "estimate"
    /\ LET model == IF informer_model_exists(files) THEN "path"
                    ELSE IF par.stage[p] # None THEN "handle"
                    ELSE "AttributeError"
       IN  par' = [par EXCEPT !.pc[p] = IF ok /\ model # "AttributeError" THEN "write"
                                        ELSE "failed",
                              !.used[p] = model]
    /\ UNCHANGED files

\* self.save_results(...) or self.update_input(...) of the call p, which
\* leave the model file alone
RaceWrite(p) ==
    /\ par.kind = "par"
    /\ par.pc[p] = "write"
    /\ par' = [par EXCEPT !.pc[p] = "done"]
    /\ UNCHANGED files

InitRace ==
    /\ par = [kind |-> "par", pc |-> [p \in Procs |-> "idle"],
              seen |-> [p \in Procs |-> "unchecked"], stage |-> [p \in Procs |-> None],
              informed |-> [p \in Procs |-> FALSE], wrote |-> [p \in Procs |-> FALSE],
              used |-> [p \in Procs |-> "none"], writes |-> 0]
    /\ \E m \in {Absent, EarlierModel} :
           files = [n \in Paths |-> IF n = informer_model_path THEN m ELSE Absent]
    /\ cat_name = ""
    /\ fit_templates = PSF_TEMPLATES
    /\ filter_names = get_roman_filter_list(FALSE)
    /\ cat_array = None
    /\ catalog = None
    /\ hlast = HLast("init", "none", None)
    /\ config = default_roman_config
    /\ flux_cols = <<>>
    /\ flux_err_cols = <<>>
    /\ data = Table(0, <<>>)
    /\ inform_stage = None
    /\ estimated = None
    /\ pc = "idle"
    /\ args = None
    /\ plast = None
    /\ run = None
    /\ NoCli /\ NoEnv /\ NoFlx /\ NoSim /\ NoRnd /\ NoFlt /\ NoGen

NextRace ==
    \/ \E p \in Procs :
           RaceGetData(p) /\ UNCHANGED <<hvars, pvars, cli, env, flx, sim, rnd, flt, gen>>
    \/ \E p \in Procs :
           RaceCheckModel(p) /\ UNCHANGED <<hvars, pvars, cli, env, flx, sim, rnd, flt, gen>>
    \/ \E p \in Procs, ok \in BOOLEAN :
           RaceInform(p, ok) /\ UNCHANGED <<hvars, pvars, cli, env, flx, sim, rnd, flt, gen>>
    \/ \E p \in Procs, ok \in BOOLEAN :
           RaceEstimate(p, ok) /\ UNCHANGED <<hvars, pvars, cli, env, flx, sim, rnd, flt, gen>>
    \/ \E p \in Procs :
           RaceWrite(p) /\ UNCHANGED <<hvars, pvars, cli, env, flx, sim, rnd, flt, gen>>

SpecRace == InitRace /\ [][NextRace]_vars

\* C27: the model artifact is guarded by nothing but the existence check of
\* each call: a call that saw the model absent runs the inform stage and
\* writes the artifact whatever the other call has done since, and a call
\* that saw it present does neither; two calls can therefore both see it
\* absent and both write it.
C27_GuardedByCheckOnly ==
    par.kind = "par" =>
        \A p \in Procs :
            /\ par.pc[p] = "inform" => par.seen[p] = "absent"
            /\ par.pc[p] \in {"estimate", "write", "done"}
                   => /\ par.seen[p] = "absent" <=> par.informed[p]
                      /\ par.informed[p]
                             => (par.wrote[p] \/ files[informer_model_path] =
                                                    ModelFile(RaceStage(p)))
                      /\ par.informed[p] => (par.writes >= 1
                                             /\ files[informer_model_path] \in
                                                    {ModelFile(RaceStage(q)) : q \in Procs})

\* both calls saw the model absent, both ran the inform stage and both wrote
\* the model file, which holds what the later one wrote
C27_Witness ==
    /\ par.kind = "par"
    /\ \A p \in Procs : par.seen[p] = "absent" /\ par.informed[p] /\ par.wrote[p]
    /\ par.writes = 2
    /\ files[informer_model_path] \in {ModelFile(RaceStage(q)) : q \in Procs}

====
